---- MODULE Spec2Model ----
(***************************************************************************)
(* Room state snapshot engine and visibility resolver of the homeserver.   *)
(*                                                                         *)
(*   globals::Data        next_count / stored_count (handle allocation)    *)
(*   state_compressor     save_statediff / get_statediff (diff encoding)   *)
(*   state_accessor::Data state_full_shortids / state_full_ids /           *)
(*                        state_get_id (resolution of a handle)            *)
(*   state_accessor       user_can_see_event / server_can_see_event        *)
(*   sending::send        resolve_actual_destination (destination          *)
(*                        discovery for federation requests)               *)
(*                                                                         *)
(* A u64 is a natural number; a byte string whose length is a multiple of  *)
(* 8 is the sequence of its big-endian u64 words (every offset the code    *)
(* uses is a multiple of size_of::<u64>()).  Option<T> is <<>> (None) or   *)
(* <<v>> (Some(v)); Result<T> is [ok |-> TRUE, val |-> v] or               *)
(* [ok |-> FALSE, err |-> e].                                              *)
(***************************************************************************)
EXTENDS Integers, Sequences, FiniteSets, TLC

VARIABLES
    counter,                  \* globals::Data.counter (RwLock<u64>)
    global,                   \* the "global" map's COUNTER key: Option<u64>
    lock,                     \* counter's RwLock: its writer and its readers
    pc,                       \* position of each thread inside next_count
    returned,                 \* values next_count has returned, in order
    initial,                  \* the counter as Data::new read it
    shortstatekeys,           \* state-key handles handed out
    shorteventids,            \* event-id handles handed out
    shortstatehash_statediff, \* the map shortstatehash -> encoded diff
    statediffs,               \* per handle, the StateDiff handed to save_statediff
    replay,                   \* per handle, the naive replay of its assignments
    resolved,                 \* the resolution call that has just returned, if any
    state_at,                 \* per snapshot handle, its state: state key -> content
    shorteventid_shortstatehash, \* event -> the snapshot handle of its state
    userroomid_joined,        \* state_cache: the users currently joined to the room
    user_visibility_cache,    \* LruCache<(user, shortstatehash), bool>, oldest first
    server_visibility_cache,  \* LruCache<(server, shortstatehash), bool>, oldest first
    seen,                     \* the can_see call that has just returned, if any
    api,                      \* the handlers calling can_see: "client" or "federation"
    overrides,                \* resolver.overrides: hostname -> (IPs, port)
    resolution,               \* the resolve_actual_destination call: its position,
                              \* its locals, the lookups it has made and its result
    actual_destinations,      \* globals.actual_destinations: server name -> (FedDest, host)
    request,                  \* the send_request call: its position, its locals, its result
    allow_federation,         \* config.allow_federation
    up,                       \* the process runs
    startup_netburst_keep,    \* Service.startup_netburst_keep
    queue_log,                \* every request ever queued; its index is its queue id
    sending_db,               \* Service.db: the queue ids of the stored requests
    channel,                  \* the loole channel from Service.sender to Service.receiver
    dispatching,              \* the send_* / flush_* call: the messages it has yet to dispatch
    statuses,                 \* the worker: per destination, its transaction status
    flushing,                 \* the worker: the destinations a Flush waits for
    delivered,                \* the transactions the destinations have acknowledged
    abandoned,                \* queue id -> why the request left the db undelivered
    crashes,                  \* how often the process was killed
    services,                 \* the stores handle_edus writes: presence, read receipts,
                              \* device lists, signing keys, to-device events, txn ids
    transaction,              \* the send_transaction_message_route call that has returned
    typing,                   \* typing::Service.typing of the room: user -> timeout
    now,                      \* millis_since_unix_epoch
    maintain,                 \* the typings_maintain call: its position and its locals
    pdus,                     \* timeline: event id -> its room, prev_events, visibility
    missing,                  \* the get_missing_events_route call: its position, locals, result
    cache_locks,              \* per cache lock, the callers that hold it
    callers,                  \* per caller, the call it runs and its position in it
    prefixes                  \* the get_prefix calls that have returned

snapVars == <<shortstatekeys, shorteventids, shortstatehash_statediff, statediffs, replay,
             resolved>>
countVars == <<counter, global, lock, pc, returned, initial>>
visVars == <<state_at, shorteventid_shortstatehash, userroomid_joined,
            user_visibility_cache, server_visibility_cache, seen, api>>
vars == <<counter, global, lock, pc, returned, initial, shortstatekeys, shorteventids,
          shortstatehash_statediff, statediffs, replay, resolved, state_at,
          shorteventid_shortstatehash, userroomid_joined, user_visibility_cache,
          server_visibility_cache, seen, api, overrides, resolution,
          actual_destinations, request, allow_federation, up, startup_netburst_keep,
          queue_log, sending_db, channel, dispatching, statuses, flushing, delivered, abandoned,
          crashes, services, transaction, typing, now, maintain, pdus, missing,
          cache_locks, callers, prefixes>>
resVars == <<overrides, resolution>>
reqVars == <<actual_destinations, request, allow_federation>>
queueVars == <<up, startup_netburst_keep, queue_log, sending_db, channel, dispatching,
              statuses, flushing, delivered, abandoned, crashes>>
sendVars == <<resVars, reqVars, queueVars>>
inboundVars == <<services, transaction>>
typingVars == <<typing, now, maintain>>
missingVars == <<pdus, missing>>
lockVars == <<cache_locks, callers>>
apiVars == <<inboundVars, typingVars, missingVars, lockVars, prefixes>>

(***************************************************************************)
(* Bounds of the model.                                                    *)
(***************************************************************************)
MaxCount == 5
MaxKeys == 2
MaxEvents == 2
MaxHandles == 2
MaxThreads == 2
MaxStored == 1
MaxSnapshots == 3
CacheCapacity == 1
MaxQueued == 2
MaxCrashes == 1
MaxBacklog == 120
MaxTransactions == 2
MaxNow == 3
MaxLimit == 4
MaxEntries == 2

Threads == 1..MaxThreads

None == <<>>
Some(v) == <<v>>
Ok(v) == [ok |-> TRUE, val |-> v]
Err(e) == [ok |-> FALSE, err |-> e]

(***************************************************************************)
(* globals::Data                                                           *)
(***************************************************************************)

\* stored_count: the COUNTER key of "global", 0 when the key is absent.
stored_count(g) == IF g = None THEN 0 ELSE g[1]

\* counter.checked_add(1): the model caps the u64 at MaxCount.
checked_add_saturating(c) == IF c < MaxCount - 1 THEN c + 1 ELSE c
checked_add(c) == c + 1

\* counter.write(): granted when no writer and no reader holds the RwLock.
write_lock_shared(t) == TRUE
write_lock_free(t) == lock.writer = None /\ lock.readers = {}

\* counter.read(): granted when no writer holds the RwLock.
read_lock_free(t) == lock.writer = None

\* next_count, first step: take the write lock.
NextCountLock(t) ==
    /\ pc[t].at = "idle"
    /\ write_lock_free(t)
    /\ counter < MaxCount
    /\ lock' = [lock EXCEPT !.writer = Some(t)]
    /\ pc' = [pc EXCEPT ![t] = [at |-> "locked", tmp |-> counter]]
    /\ UNCHANGED <<apiVars, counter, global, returned, initial, snapVars, visVars, sendVars>>

\* next_count, second step: *counter = counter.checked_add(1), then
\* global.insert(COUNTER, counter).
NextCountStore(t) ==
    /\ pc[t].at = "locked"
    /\ counter' = checked_add(pc[t].tmp)
    /\ global' = Some(counter')
    /\ pc' = [pc EXCEPT ![t] = [at |-> "stored", tmp |-> counter']]
    /\ UNCHANGED <<apiVars, lock, returned, initial, snapVars, visVars, sendVars>>

\* next_count, last step: Ok(*counter); the guard is dropped.
NextCountReturn(t) ==
    /\ pc[t].at = "stored"
    /\ returned' = Append(returned, pc[t].tmp)
    /\ lock' = IF lock.writer = Some(t) THEN [lock EXCEPT !.writer = None] ELSE lock
    /\ pc' = [pc EXCEPT ![t] = [at |-> "idle", tmp |-> 0]]
    /\ UNCHANGED <<apiVars, counter, global, initial, snapVars, visVars, sendVars>>

\* current_count, first step: take the read lock.
CurrentCountLock(t) ==
    /\ pc[t].at = "idle"
    /\ read_lock_free(t)
    /\ lock' = [lock EXCEPT !.readers = @ \cup {t}]
    /\ pc' = [pc EXCEPT ![t] = [at |-> "reading", tmp |-> 0]]
    /\ UNCHANGED <<apiVars, counter, global, returned, initial, snapVars, visVars, sendVars>>

\* current_count, last step: *counter; the guard is dropped.
CurrentCountReturn(t) ==
    /\ pc[t].at = "reading"
    /\ lock' = [lock EXCEPT !.readers = @ \ {t}]
    /\ pc' = [pc EXCEPT ![t] = [at |-> "idle", tmp |-> counter]]
    /\ UNCHANGED <<apiVars, counter, global, returned, initial, snapVars, visVars, sendVars>>

\* Data::new: counter is read from the stored COUNTER key.
InitCount ==
    /\ global \in {None} \cup {Some(v) : v \in 0..MaxStored}
    /\ counter = stored_count(global)
    /\ initial = counter
    /\ lock = [writer |-> None, readers |-> {}]
    /\ pc = [t \in Threads |-> [at |-> "idle", tmp |-> 0]]
    /\ returned = <<>>

\* next_count called by a single caller and run to its end: the three steps
\* above, with no other thread inside.
NextCountCall(v) ==
    /\ write_lock_free(0)
    /\ counter < MaxCount
    /\ v = checked_add(counter)
    /\ counter' = v
    /\ global' = Some(v)
    /\ returned' = Append(returned, v)
    /\ UNCHANGED <<lock, pc, initial>>

(***************************************************************************)
(* state_compressor::Data: the encoded diff of a handle                    *)
(***************************************************************************)

\* CompressedStateEvent: shortstatekey.to_be_bytes() ++ shorteventid.to_be_bytes().
compress_state_event(k, e) == <<k, e>>
parse_compressed_state_event(c) == <<c[1], c[2]>>

\* The orders in which a HashSet's iterator may yield its elements.
Orders(S) ==
    {q \in [1..Cardinality(S) -> S] : \A i, j \in DOMAIN q : i # j => q[i] # q[j]}

RECURSIVE Flatten(_)
Flatten(q) == IF q = <<>> THEN <<>> ELSE Head(q) \o Flatten(Tail(q))

Put(f, x, v) == [y \in DOMAIN f \cup {x} |-> IF y = x THEN v ELSE f[y]]

\* save_statediff: the value written under shortstatehash; added and removed
\* are given in the order their iterators yield them.
save_statediff_no_separator(parent, added, removed) ==
    <<IF parent = None THEN 0 ELSE parent[1]>> \o Flatten(added) \o Flatten(removed)
save_statediff(parent, added, removed) ==
    <<IF parent = None THEN 0 ELSE parent[1]>>
        \o Flatten(added)
        \o (IF removed # <<>> THEN <<0>> \o Flatten(removed) ELSE <<>>)

\* get_statediff's loop: i is the offset in words, value.get(i..i + 2 * stride)
\* is Some while two words are left.
RECURSIVE decode(_, _, _, _, _)
decode(value, i, add_mode, added, removed) ==
    IF i + 2 > Len(value) THEN [added |-> added, removed |-> removed]
    ELSE LET v == <<value[i + 1], value[i + 2]>> IN
         IF add_mode /\ v[1] = 0 THEN decode(value, i + 1, FALSE, added, removed)
         ELSE IF add_mode THEN decode(value, i + 2, add_mode, added \cup {v}, removed)
         ELSE decode(value, i + 2, add_mode, added, removed \cup {v})

get_statediff_no_parent(db, shortstatehash) ==
    IF shortstatehash \notin DOMAIN db THEN Err("BadDatabase")
    ELSE LET value == db[shortstatehash]
             d == decode(value, 1, TRUE, {}, {})
         IN  Ok([parent |-> None, added |-> d.added, removed |-> d.removed])
get_statediff(db, shortstatehash) ==
    IF shortstatehash \notin DOMAIN db THEN Err("BadDatabase")
    ELSE LET value == db[shortstatehash]
             d == decode(value, 1, TRUE, {}, {})
         IN  Ok([parent |-> IF value[1] # 0 THEN Some(value[1]) ELSE None,
                 added |-> d.added, removed |-> d.removed])

(***************************************************************************)
(* state_compressor: the layers of a handle, root first                    *)
(***************************************************************************)

\* One layer folded onto the running state: the removed entries are evicted,
\* then the added entries are inserted, overwriting the entry of their key.
fold_layer(state, added, removed) ==
    {c \in state : c \notin removed /\ ~\E a \in added : a[1] = c[1]} \cup added

RECURSIVE load_shortstatehash_info(_, _)
load_shortstatehash_info(db, shortstatehash) ==
    LET d == get_statediff(db, shortstatehash) IN
    IF ~d.ok THEN d
    ELSE LET below == IF d.val.parent = None THEN Ok(<<>>)
                      ELSE load_shortstatehash_info(db, d.val.parent[1]) IN
         IF ~below.ok THEN below
         ELSE LET prev == IF below.val = <<>> THEN {}
                          ELSE below.val[Len(below.val)].full_state
              IN  Ok(Append(below.val,
                      [shortstatehash |-> shortstatehash,
                       full_state |-> fold_layer(prev, d.val.added, d.val.removed),
                       added |-> d.val.added,
                       removed |-> d.val.removed]))

\* short: the event id of a shorteventid.
get_eventid_from_short(ids, shorteventid) ==
    IF shorteventid \in ids THEN Ok(<<"$", shorteventid>>) ELSE Err("NotFound")

\* short: the shortstatekey of an (event type, state key) pair that has one.
get_shortstatekey(keys, k) == IF k \in keys THEN Ok(k) ELSE Err("NotFound")

(***************************************************************************)
(* state_accessor::Data: resolution of a handle                            *)
(***************************************************************************)

\* state_full_shortids: the last layer's full_state, each entry parsed.
state_full_shortids_lenient(db, shortstatehash) ==
    LET info == load_shortstatehash_info(db, shortstatehash) IN
    IF ~info.ok THEN Ok({})
    ELSE Ok({parse_compressed_state_event(c) : c \in info.val[Len(info.val)].full_state})
state_full_shortids(db, shortstatehash) ==
    LET info == load_shortstatehash_info(db, shortstatehash) IN
    IF ~info.ok THEN Err("Database")
    ELSE Ok({parse_compressed_state_event(c) : c \in info.val[Len(info.val)].full_state})

\* collect() of (key, value) pairs into a HashMap.
Collect(pairs) ==
    [k \in {p[1] : p \in pairs} |-> (CHOOSE p \in pairs : p[1] = k)[2]]

\* state_full_ids: shortstatekey -> event id, the entries whose event id is
\* not found left out.
state_full_ids(db, ids, shortstatehash) ==
    LET short_ids == state_full_shortids(db, shortstatehash) IN
    IF ~short_ids.ok THEN short_ids
    ELSE Ok(Collect({<<p[1], get_eventid_from_short(ids, p[2]).val>> :
                        p \in {q \in short_ids.val : get_eventid_from_short(ids, q[2]).ok}}))

\* Data::state_get_id: the event id of one state key at a handle.
state_get_id_any(db, keys, ids, shortstatehash, k) ==
    LET shortstatekey == get_shortstatekey(keys, k) IN
    IF ~shortstatekey.ok THEN shortstatekey
    ELSE LET info == load_shortstatehash_info(db, shortstatehash) IN
         IF ~info.ok THEN Err("Database")
         ELSE LET full_state == info.val[Len(info.val)].full_state
              IN  IF full_state = {} THEN Err("Database")
                  ELSE get_eventid_from_short(ids,
                           parse_compressed_state_event(CHOOSE c \in full_state : TRUE)[2])
state_get_id(db, keys, ids, shortstatehash, k) ==
    LET shortstatekey == get_shortstatekey(keys, k) IN
    IF ~shortstatekey.ok THEN shortstatekey
    ELSE LET info == load_shortstatehash_info(db, shortstatehash) IN
         IF ~info.ok THEN Err("Database")
         ELSE LET full_state == info.val[Len(info.val)].full_state
                  found == {c \in full_state : c[1] = shortstatekey.val}
              IN  IF found = {} THEN Err("Database")
                  ELSE get_eventid_from_short(ids,
                           parse_compressed_state_event(CHOOSE c \in found : TRUE)[2])

\* Service::state_get_id hands the request to Data::state_get_id.
Service_state_get_id(db, keys, ids, shortstatehash, k) ==
    state_get_id(db, keys, ids, shortstatehash, k)

(***************************************************************************)
(* The snapshot store's operations                                         *)
(***************************************************************************)

\* short::get_or_create_shortstatekey for a pair that has no handle yet.
GetOrCreateShortStateKey ==
    \E v \in 1..MaxCount :
        /\ Cardinality(shortstatekeys) < MaxKeys
        /\ NextCountCall(v)
        /\ shortstatekeys' = shortstatekeys \cup {v}
        /\ resolved' = None
        /\ UNCHANGED <<apiVars, shorteventids, shortstatehash_statediff, statediffs, replay, visVars, sendVars>>

\* short::get_or_create_shorteventid for an event that has no handle yet.
GetOrCreateShortEventId ==
    \E v \in 1..MaxCount :
        /\ Cardinality(shorteventids) < MaxEvents
        /\ NextCountCall(v)
        /\ shorteventids' = shorteventids \cup {v}
        /\ resolved' = None
        /\ UNCHANGED <<apiVars, shortstatekeys, shortstatehash_statediff, statediffs, replay, visVars, sendVars>>

\* The partial maps key -> event a caller may assign in one snapshot.
Assignments ==
    UNION {[K -> shorteventids] : K \in SUBSET shortstatekeys \ {{}}}

\* A new snapshot: the caller loads the state of the parent, a handle it got
\* earlier, assigns m on top of it, takes the new handle from next_count and
\* saves the diff against the parent.
CreateSnapshot ==
    \E parent \in {None} \cup {Some(h) : h \in DOMAIN replay},
       m \in Assignments, shortstatehash \in 1..MaxCount :
        /\ Cardinality(DOMAIN shortstatehash_statediff) < MaxHandles
        /\ NextCountCall(shortstatehash)
        /\ parent # None =>
               /\ parent[1] < shortstatehash
               /\ state_full_shortids(shortstatehash_statediff, parent[1]).ok
        /\ LET parent_state ==
                   IF parent = None THEN {}
                   ELSE state_full_shortids(shortstatehash_statediff, parent[1]).val
               new_state ==
                   {c \in parent_state : c[1] \notin DOMAIN m}
                       \cup {<<k, m[k]>> : k \in DOMAIN m}
               added == {compress_state_event(c[1], c[2]) : c \in new_state \ parent_state}
               removed == {compress_state_event(c[1], c[2]) : c \in parent_state \ new_state}
           IN  /\ \E a \in Orders(added), r \in Orders(removed) :
                      shortstatehash_statediff' =
                          Put(shortstatehash_statediff, shortstatehash,
                              save_statediff(parent, a, r))
               /\ statediffs' = Put(statediffs, shortstatehash,
                      [parent |-> parent, added |-> added, removed |-> removed])
        /\ replay' = Put(replay, shortstatehash,
                         LET before == IF parent = None THEN <<>> ELSE replay[parent[1]]
                         IN  [k \in DOMAIN before \cup DOMAIN m |->
                                 IF k \in DOMAIN m THEN m[k] ELSE before[k]])
        /\ resolved' = None
        /\ UNCHANGED <<apiVars, shortstatekeys, shorteventids, visVars, sendVars>>

\* save_statediff checks nothing: a diff saved under a parent that has no
\* stored diff (here the value next_count returned just before, when no diff
\* was saved under it) leaves a chain with a missing handle.
SaveDanglingDiff ==
    \E parent \in 1..MaxCount, k \in shortstatekeys, e \in shorteventids,
       shortstatehash \in 1..MaxCount :
        /\ Cardinality(DOMAIN shortstatehash_statediff) < MaxHandles
        /\ NextCountCall(shortstatehash)
        /\ parent = shortstatehash - 1
        /\ parent \notin DOMAIN shortstatehash_statediff
        /\ shortstatehash_statediff' =
               Put(shortstatehash_statediff, shortstatehash,
                   save_statediff(Some(parent), <<compress_state_event(k, e)>>, <<>>))
        /\ statediffs' = Put(statediffs, shortstatehash,
               [parent |-> Some(parent), added |-> {compress_state_event(k, e)},
                removed |-> {}])
        /\ resolved' = None
        /\ UNCHANGED <<apiVars, shortstatekeys, shorteventids, replay, visVars, sendVars>>

\* The handles a caller asks for: those that have a diff, and one that has none.
Requested == DOMAIN shortstatehash_statediff \cup {counter + 1}

\* A call of state_full_ids.
StateFullIds ==
    \E shortstatehash \in Requested :
        /\ resolved' = Some([op |-> "state_full_ids", shortstatehash |-> shortstatehash,
                             key |-> 0,
                             result |-> state_full_ids(shortstatehash_statediff,
                                                       shorteventids, shortstatehash)])
        /\ UNCHANGED <<apiVars, countVars, shortstatekeys, shorteventids,
                       shortstatehash_statediff, statediffs, replay, visVars, sendVars>>

\* A call of state_get_id, for a key that has a handle or for one that has none.
StateGetId ==
    \E shortstatehash \in Requested, k \in shortstatekeys \cup {counter + 1} :
        /\ resolved' = Some([op |-> "state_get_id", shortstatehash |-> shortstatehash,
                             key |-> k,
                             result |-> Service_state_get_id(shortstatehash_statediff,
                                            shortstatekeys, shorteventids,
                                            shortstatehash, k)])
        /\ UNCHANGED <<apiVars, countVars, shortstatekeys, shorteventids,
                       shortstatehash_statediff, statediffs, replay, visVars, sendVars>>

\* No transaction has come in, nobody is typing, no get_missing_events
\* request runs, no caller is in a cache, and no key has been computed.
InitInboundEmpty ==
    /\ services = [timeline |-> 0, presence |-> {}, read_receipt |-> {},
                   device_key_updates |-> {}, cross_signing_keys |-> {},
                   todevice |-> <<>>, transaction_ids |-> {}]
    /\ transaction = [count |-> 0, origin |-> "", body_origin |-> "", pdus |-> 0,
                      edus |-> 0, malformed |-> FALSE, result |-> Ok("unit"),
                      skipped |-> 0]

InitTypingEmpty ==
    /\ typing = <<>>
    /\ now = 0
    /\ maintain = [at |-> "idle", current_timestamp |-> 0, removable |-> {}]

InitMissingEmpty ==
    /\ pdus = <<>>
    /\ missing = [at |-> "idle"]

InitLockEmpty ==
    /\ cache_locks = <<>>
    /\ callers = <<>>

InitPrefixEmpty == prefixes = [at |-> "idle"]

InitApiEmpty ==
    /\ InitInboundEmpty
    /\ InitTypingEmpty
    /\ InitMissingEmpty
    /\ InitLockEmpty
    /\ InitPrefixEmpty

\* Service::build: both visibility caches start empty; the room has no
\* snapshot and no member yet.
\* No resolution has run: the override map is empty.
InitResEmpty ==
    /\ overrides = <<>>
    /\ resolution = [at |-> "idle", destination |-> <<>>, hostname |-> <<>>,
                     wait |-> <<>>, log |-> <<>>, result |-> None]

InitReqEmpty ==
    /\ actual_destinations = <<>>
    /\ request = [at |-> "idle", destination |-> <<>>, actual |-> None, result |-> None]

InitQueueEmpty ==
    /\ up = TRUE
    /\ queue_log = <<>>
    /\ sending_db = {}
    /\ channel = <<>>
    /\ dispatching = <<>>
    /\ statuses = <<>>
    /\ flushing = {}
    /\ delivered = <<>>
    /\ abandoned = <<>>
    /\ crashes = 0

InitSendEmpty ==
    /\ InitApiEmpty
    /\ InitResEmpty
    /\ InitReqEmpty
    /\ allow_federation = TRUE
    /\ InitQueueEmpty
    /\ startup_netburst_keep = -1

InitVisEmpty ==
    /\ state_at = <<>>
    /\ shorteventid_shortstatehash = <<>>
    /\ userroomid_joined = {}
    /\ user_visibility_cache = <<>>
    /\ server_visibility_cache = <<>>
    /\ seen = None
    /\ api = "client"

InitSnapEmpty ==
    /\ shortstatekeys = {}
    /\ shorteventids = {}
    /\ shortstatehash_statediff = <<>>
    /\ statediffs = <<>>
    /\ replay = <<>>
    /\ resolved = None

InitCounter == InitCount /\ InitSnapEmpty /\ InitVisEmpty /\ InitSendEmpty

NextCounter ==
    \E t \in Threads :
        \/ NextCountLock(t)
        \/ NextCountStore(t)
        \/ NextCountReturn(t)
        \/ CurrentCountLock(t)
        \/ CurrentCountReturn(t)

\* Concurrent callers of next_count and current_count.
SpecCounter == InitCounter /\ [][NextCounter]_vars

\* A fresh database: no COUNTER key, no handle, no diff.
InitSnap ==
    InitCount /\ global = None /\ InitSnapEmpty /\ InitVisEmpty /\ InitSendEmpty

NextSnap ==
    \/ GetOrCreateShortStateKey
    \/ GetOrCreateShortEventId
    \/ CreateSnapshot
    \/ SaveDanglingDiff
    \/ StateFullIds
    \/ StateGetId

\* The snapshot store: handles are allocated, diffs saved and handles resolved.
SpecSnap == InitSnap /\ [][NextSnap]_vars

(***************************************************************************)
(* state_accessor::Service: the visibility resolver                        *)
(***************************************************************************)

\* One room; two users of server "one"; server "two" has no user.
Users == {[localpart |-> "alice", server |-> "one"],
          [localpart |-> "bob", server |-> "one"]}
Servers == {"one", "two"}
server_name(user_id) == user_id.server

\* The events can_see is asked about: event h carries snapshot h once that
\* snapshot exists; event 0 never has a snapshot.
EventIds == 0..MaxSnapshots

\* Contents of an m.room.history_visibility event and of an m.room.member
\* event, as stored.
HistoryVisibilityContents ==
    {"world_readable", "shared", "invited", "joined", "x.custom", "malformed"}
MembershipContents == {"join", "invite", "leave", "malformed"}

RoomHistoryVisibility == "m.room.history_visibility"
RoomMember == "m.room.member"

\* serde_json::from_str::<RoomHistoryVisibilityEventContent>(content).history_visibility
parse_history_visibility_lenient(content) ==
    IF content \in {"world_readable", "shared", "invited", "joined"} THEN Ok(content)
    ELSE Ok("shared")
parse_history_visibility(content) ==
    IF content \in {"world_readable", "shared", "invited", "joined"} THEN Ok(content)
    ELSE IF content = "malformed" THEN Err("Json")
    ELSE Ok("_Custom")

\* serde_json::from_str::<RoomMemberEventContent>(content).membership
parse_membership(content) ==
    IF content \in {"join", "invite", "leave", "ban", "knock"} THEN Ok(content)
    ELSE Err("Json")

\* pdu_shortstatehash: the snapshot handle of an event, if it has one.
pdu_shortstatehash_latest(event_id) ==
    IF event_id \in DOMAIN shorteventid_shortstatehash
    THEN Ok(Some(shorteventid_shortstatehash[event_id]))
    ELSE IF DOMAIN state_at = {} THEN Ok(None)
    ELSE Ok(Some(Cardinality(DOMAIN state_at)))
pdu_shortstatehash(event_id) ==
    IF event_id \in DOMAIN shorteventid_shortstatehash
    THEN Ok(Some(shorteventid_shortstatehash[event_id]))
    ELSE Ok(None)

\* Data::state_get as Service::state_get expects it: the content of the event
\* a state key has at a handle, none when the state does not hold the key.
db_state_get(shortstatehash, event_type, state_key) ==
    IF shortstatehash \notin DOMAIN state_at THEN Err("Database")
    ELSE IF <<event_type, state_key>> \in DOMAIN state_at[shortstatehash]
         THEN Ok(Some(state_at[shortstatehash][<<event_type, state_key>>]))
         ELSE Ok(None)

\* Service::state_get hands the request to Data::state_get.
state_get(shortstatehash, event_type, state_key) ==
    db_state_get(shortstatehash, event_type, state_key)

\* user_membership: Leave when the state has no member event of the user.
user_membership(shortstatehash, user_id) ==
    LET s == state_get(shortstatehash, RoomMember, user_id) IN
    IF ~s.ok THEN s
    ELSE IF s.val = None THEN Ok("leave")
    ELSE IF parse_membership(s.val[1]).ok THEN parse_membership(s.val[1])
    ELSE Err("BadDatabase")

user_was_joined(shortstatehash, user_id) ==
    LET m == user_membership(shortstatehash, user_id) IN m.ok /\ m.val = "join"

user_was_invited_now(shortstatehash, user_id) ==
    user_id \in userroomid_joined
user_was_invited(shortstatehash, user_id) ==
    LET m == user_membership(shortstatehash, user_id) IN
    m.ok /\ (m.val = "join" \/ m.val = "invite")

\* The history visibility read at a handle: Shared when the state holds no
\* such event and when its content does not parse; an error of state_get
\* itself is returned to the caller.
history_visibility(shortstatehash) ==
    LET s == state_get(shortstatehash, RoomHistoryVisibility, "") IN
    IF ~s.ok THEN s
    ELSE IF s.val = None THEN Ok("shared")
    ELSE IF parse_history_visibility(s.val[1]).ok THEN parse_history_visibility(s.val[1])
    ELSE Ok("shared")

\* state_cache: is_joined and room_members of the room.
is_joined(user_id) == user_id \in userroomid_joined
room_members == userroomid_joined

\* user_can_see_event after a cache miss: the match on history_visibility.
user_visibility_members_only(user_id, shortstatehash) ==
    LET hv == history_visibility(shortstatehash) IN
    IF ~hv.ok THEN hv
    ELSE Ok(CASE hv.val = "world_readable" -> is_joined(user_id)
              [] hv.val = "shared" -> is_joined(user_id)
              [] hv.val = "invited" -> user_was_invited(shortstatehash, user_id)
              [] hv.val = "joined" -> user_was_joined(shortstatehash, user_id)
              [] OTHER -> FALSE)
user_visibility(user_id, shortstatehash) ==
    LET currently_member == is_joined(user_id)
        hv == history_visibility(shortstatehash)
    IN  IF ~hv.ok THEN hv
        ELSE Ok(CASE hv.val = "world_readable" -> TRUE
                  [] hv.val = "shared" -> currently_member
                  [] hv.val = "invited" -> user_was_invited(shortstatehash, user_id)
                  [] hv.val = "joined" -> user_was_joined(shortstatehash, user_id)
                  [] OTHER -> FALSE)

\* server_can_see_event after a cache miss: the match on history_visibility.
server_visibility_members(origin, shortstatehash) ==
    LET hv == history_visibility(shortstatehash)
        current_server_members == {m \in room_members : server_name(m) = origin}
    IN  IF ~hv.ok THEN hv
        ELSE Ok(CASE hv.val = "world_readable" -> TRUE
                  [] hv.val = "shared" -> current_server_members # {}
                  [] hv.val = "invited" ->
                       \E m \in current_server_members : user_was_invited(shortstatehash, m)
                  [] hv.val = "joined" ->
                       \E m \in current_server_members : user_was_joined(shortstatehash, m)
                  [] OTHER -> FALSE)
server_visibility(origin, shortstatehash) ==
    LET hv == history_visibility(shortstatehash)
        current_server_members == {m \in room_members : server_name(m) = origin}
    IN  IF ~hv.ok THEN hv
        ELSE Ok(CASE hv.val = "world_readable" -> TRUE
                  [] hv.val = "shared" -> TRUE
                  [] hv.val = "invited" ->
                       \E m \in current_server_members : user_was_invited(shortstatehash, m)
                  [] hv.val = "joined" ->
                       \E m \in current_server_members : user_was_joined(shortstatehash, m)
                  [] OTHER -> FALSE)

\* LruCache: get_mut makes the entry the most recently used one; insert
\* replaces the entry of the key, makes it the most recently used one and
\* drops the least recently used entry when the capacity is exceeded.
lru_lookup(cache, key) ==
    IF \E i \in DOMAIN cache : cache[i].key = key
    THEN Some((CHOOSE e \in {cache[i] : i \in DOMAIN cache} : e.key = key).value)
    ELSE None

lru_without(cache, key) == SelectSeq(cache, LAMBDA e : e.key # key)

lru_get_mut(cache, key) ==
    IF lru_lookup(cache, key) = None THEN cache
    ELSE Append(lru_without(cache, key), [key |-> key, value |-> lru_lookup(cache, key)[1]])

lru_insert(cache, key, value) ==
    LET put == Append(lru_without(cache, key), [key |-> key, value |-> value])
    IN  IF Len(put) > CacheCapacity THEN Tail(put) ELSE put

\* user_can_see_event.
UserCanSeeEvent ==
    /\ api = "client"
    /\ \E user_id \in Users, event_id \in EventIds :
        LET shortstatehash == pdu_shortstatehash(event_id).val
            key == <<user_id, shortstatehash[1]>>
            hit == lru_lookup(user_visibility_cache, key)
            visibility == user_visibility(user_id, shortstatehash[1])
            call == [kind |-> "user", actor |-> user_id, event |-> event_id]
        IN  IF shortstatehash = None
            THEN /\ seen' = Some([call |-> call, result |-> Ok(TRUE), hit |-> FALSE,
                                  fresh |-> Ok(TRUE)])
                 /\ UNCHANGED user_visibility_cache
            ELSE IF hit # None
            THEN /\ seen' = Some([call |-> call, result |-> Ok(hit[1]), hit |-> TRUE,
                                  fresh |-> visibility])
                 /\ user_visibility_cache' = lru_get_mut(user_visibility_cache, key)
            ELSE IF ~visibility.ok
            THEN /\ seen' = Some([call |-> call, result |-> visibility, hit |-> FALSE,
                                  fresh |-> visibility])
                 /\ UNCHANGED user_visibility_cache
            ELSE /\ seen' = Some([call |-> call, result |-> visibility, hit |-> FALSE,
                                  fresh |-> visibility])
                 /\ user_visibility_cache' =
                        lru_insert(user_visibility_cache, key, visibility.val)
    /\ UNCHANGED <<apiVars, countVars, snapVars, sendVars, state_at, shorteventid_shortstatehash,
                   userroomid_joined, server_visibility_cache, api>>

\* server_can_see_event.
ServerCanSeeEvent ==
    /\ api = "federation"
    /\ \E origin \in Servers, event_id \in EventIds :
        LET shortstatehash == pdu_shortstatehash(event_id).val
            key == <<origin, shortstatehash[1]>>
            hit == lru_lookup(server_visibility_cache, key)
            visibility == server_visibility(origin, shortstatehash[1])
            call == [kind |-> "server", actor |-> origin, event |-> event_id]
        IN  IF shortstatehash = None
            THEN /\ seen' = Some([call |-> call, result |-> Ok(TRUE), hit |-> FALSE,
                                  fresh |-> Ok(TRUE)])
                 /\ UNCHANGED server_visibility_cache
            ELSE IF hit # None
            THEN /\ seen' = Some([call |-> call, result |-> Ok(hit[1]), hit |-> TRUE,
                                  fresh |-> visibility])
                 /\ server_visibility_cache' = lru_get_mut(server_visibility_cache, key)
            ELSE IF ~visibility.ok
            THEN /\ seen' = Some([call |-> call, result |-> visibility, hit |-> FALSE,
                                  fresh |-> visibility])
                 /\ UNCHANGED server_visibility_cache
            ELSE /\ seen' = Some([call |-> call, result |-> visibility, hit |-> FALSE,
                                  fresh |-> visibility])
                 /\ server_visibility_cache' =
                        lru_insert(server_visibility_cache, key, visibility.val)
    /\ UNCHANGED <<apiVars, countVars, snapVars, sendVars, state_at, shorteventid_shortstatehash,
                   userroomid_joined, user_visibility_cache, api>>

\* room_state_get: the content of the event a state key has in the current
\* state of the room, none when the room has no state yet.
room_state_get(event_type, state_key) ==
    IF DOMAIN state_at = {} THEN Ok(None)
    ELSE state_get(Cardinality(DOMAIN state_at), event_type, state_key)

\* user_can_see_state_events.
user_can_see_state_events_members_only(user_id) == Ok(is_joined(user_id))
user_can_see_state_events(user_id) ==
    LET currently_member == is_joined(user_id)
        s == room_state_get(RoomHistoryVisibility, "")
        history_visibility_now ==
            IF s.val = None THEN "shared"
            ELSE IF parse_history_visibility(s.val[1]).ok
                 THEN parse_history_visibility(s.val[1]).val
                 ELSE "shared"
    IN  IF ~s.ok THEN s
        ELSE Ok(currently_member \/ history_visibility_now = "world_readable")

\* A client handler asks user_can_see_state_events.
UserCanSeeStateEvents ==
    /\ api = "client"
    /\ \E user_id \in Users :
        LET result == user_can_see_state_events(user_id) IN
        seen' = Some([call |-> [kind |-> "state", actor |-> user_id, event |-> 0],
                      result |-> result, hit |-> FALSE, fresh |-> result])
    /\ UNCHANGED <<apiVars, countVars, snapVars, sendVars, state_at, shorteventid_shortstatehash,
                   userroomid_joined, user_visibility_cache, server_visibility_cache, api>>

\* room_initial_sync_route: Forbidden unless the sender can see the state
\* events of the room.
room_initial_sync_route(sender_user) ==
    LET allowed == user_can_see_state_events(sender_user) IN
    IF ~allowed.ok THEN allowed
    ELSE IF ~allowed.val THEN Err("Forbidden")
    ELSE Ok("Response")

RoomInitialSyncRoute ==
    /\ api = "client"
    /\ \E sender_user \in Users :
        LET result == room_initial_sync_route(sender_user) IN
        seen' = Some([call |-> [kind |-> "initial_sync", actor |-> sender_user,
                                event |-> 0],
                      result |-> result, hit |-> FALSE, fresh |-> result])
    /\ UNCHANGED <<apiVars, countVars, snapVars, sendVars, state_at, shorteventid_shortstatehash,
                   userroomid_joined, user_visibility_cache, server_visibility_cache, api>>

\* clear_cache.
ClearCache ==
    /\ user_visibility_cache # <<>> \/ server_visibility_cache # <<>>
    /\ user_visibility_cache' = <<>>
    /\ server_visibility_cache' = <<>>
    /\ seen' = None
    /\ UNCHANGED <<apiVars, countVars, snapVars, sendVars, state_at, shorteventid_shortstatehash,
                   userroomid_joined, api>>

\* The state of the room as of its latest snapshot.
CurrentState ==
    IF DOMAIN state_at = {} THEN <<>> ELSE state_at[Cardinality(DOMAIN state_at)]

\* A state event is appended to the room: its snapshot is the current state
\* with the event's key set to its content, and the event maps to it.
AppendStateEvent(event_type, state_key, content) ==
    LET shortstatehash == Cardinality(DOMAIN state_at) + 1 IN
    /\ shortstatehash <= MaxSnapshots
    /\ state_at' = Put(state_at, shortstatehash,
                       Put(CurrentState, <<event_type, state_key>>, content))
    /\ shorteventid_shortstatehash' =
           Put(shorteventid_shortstatehash, shortstatehash, shortstatehash)
    /\ seen' = None

\* The room's history visibility is set.
SetHistoryVisibility ==
    \E content \in HistoryVisibilityContents :
        /\ AppendStateEvent(RoomHistoryVisibility, "", content)
        /\ UNCHANGED <<apiVars, countVars, snapVars, sendVars, userroomid_joined, user_visibility_cache,
                       server_visibility_cache, api>>

\* A membership event of a user is appended; state_cache follows it.
SetMembership ==
    \E user_id \in Users, content \in MembershipContents :
        /\ AppendStateEvent(RoomMember, user_id, content)
        /\ userroomid_joined' = IF content = "join"
                                THEN userroomid_joined \cup {user_id}
                                ELSE userroomid_joined \ {user_id}
        /\ UNCHANGED <<apiVars, countVars, snapVars, sendVars, user_visibility_cache,
                       server_visibility_cache, api>>

\* The two caches share no entry and no can_see call touches both: a run is
\* explored with the callers of one API at a time, the client handlers
\* (user_can_see_event) or the federation handlers (server_can_see_event).
InitVis ==
    /\ InitCount
    /\ global = None
    /\ InitSnapEmpty
    /\ state_at = <<>>
    /\ shorteventid_shortstatehash = <<>>
    /\ userroomid_joined = {}
    /\ user_visibility_cache = <<>>
    /\ server_visibility_cache = <<>>
    /\ seen = None
    /\ api \in {"client", "federation"}
    /\ InitSendEmpty

NextVis ==
    \/ SetHistoryVisibility
    \/ SetMembership
    \/ UserCanSeeEvent
    \/ ServerCanSeeEvent
    \/ UserCanSeeStateEvents
    \/ RoomInitialSyncRoute
    \/ ClearCache

\* The visibility resolver over a room whose state events are appended.
SpecVis == InitVis /\ [][NextVis]_vars

(***************************************************************************)
(* sending::send: resolve_actual_destination                               *)
(*                                                                         *)
(* A string is the sequence of its tokens: a hostname or an IP address is  *)
(* one token, ":" and "." are tokens, and the decimal digits of a port are *)
(* one token.  DNS and the well-known fetch are the environment: every     *)
(* lookup the resolution awaits is answered by one of the outcomes its     *)
(* return type allows.                                                     *)
(***************************************************************************)

Hostnames == {"example.org", "deleg.example.org", "target.example.org",
              "legacy.example.org"}
\* IP addresses, as the strings Ipv4Addr and Ipv6Addr print.
IpLiterals == {<<"1.1.1.1">>, <<"10.0.0.1">>}
Ipv6Literals == {<<"dead", ":", "beef", ":", ":">>, <<"dead", ":", ":", "beef">>}
PortDigits == {"8448", "9001", "9002"}

\* The server names resolution is asked about.
ServerNames ==
    {<<"example.org">>, <<"example.org", ":", "9001">>, <<"1.1.1.1">>,
     <<"1.1.1.1", ":", "9001">>}

\* u16::to_string and str::parse::<u16>.
u16_to_string(port) ==
    CASE port = 8448 -> "8448" [] port = 9001 -> "9001" [] port = 9002 -> "9002"

parse_u16(s) ==
    IF Len(s) = 1 /\ s[1] \in PortDigits
    THEN Ok(CASE s[1] = "8448" -> 8448 [] s[1] = "9001" -> 9001 [] s[1] = "9002" -> 9002)
    ELSE Err("ParseIntError")

\* Result::unwrap_or and Option::unwrap_or.
result_unwrap_or(r, default) == IF r.ok THEN r.val ELSE default
option_unwrap_or(o, default) == IF o = None THEN default ELSE o[1]

\* str::find(':') and str::split_at.
find(s, c) ==
    IF \E i \in DOMAIN s : s[i] = c
    THEN Some(CHOOSE i \in DOMAIN s : s[i] = c /\ \A j \in 1..(i - 1) : s[j] # c)
    ELSE None

split_at(s, pos) == <<SubSeq(s, 1, pos - 1), SubSeq(s, pos, Len(s))>>

\* str::trim_end_matches('.').
RECURSIVE trim_end_matches(_, _)
trim_end_matches(s, c) ==
    IF s # <<>> /\ s[Len(s)] = c THEN trim_end_matches(SubSeq(s, 1, Len(s) - 1), c)
    ELSE s

\* str::parse::<SocketAddr>, str::parse::<IpAddr> and SocketAddr::to_string.
SocketAddr(ip, port) == [ip |-> ip, port |-> port]

parse_SocketAddr(s) ==
    IF Len(s) = 3 /\ <<s[1]>> \in IpLiterals /\ s[2] = ":" /\ s[3] \in PortDigits
    THEN Ok(SocketAddr(<<s[1]>>, parse_u16(<<s[3]>>).val))
    ELSE IF /\ Len(s) > 4
            /\ s[1] = "["
            /\ SubSeq(s, 2, Len(s) - 3) \in Ipv6Literals
            /\ s[Len(s) - 2] = "]"
            /\ s[Len(s) - 1] = ":"
            /\ s[Len(s)] \in PortDigits
    THEN Ok(SocketAddr(SubSeq(s, 2, Len(s) - 3), parse_u16(<<s[Len(s)]>>).val))
    ELSE Err("AddrParseError")

parse_IpAddr(s) ==
    IF s \in IpLiterals \cup Ipv6Literals THEN Ok(s) ELSE Err("AddrParseError")

SocketAddr_to_string(addr) ==
    IF addr.ip \in Ipv6Literals
    THEN <<"[">> \o addr.ip \o <<"]", ":", u16_to_string(addr.port)>>
    ELSE addr.ip \o <<":", u16_to_string(addr.port)>>

\* FedDest.
Literal(addr) == [kind |-> "Literal", addr |-> addr]
Named(host, port) == [kind |-> "Named", host |-> host, port |-> port]

into_uri_string(dest) ==
    IF dest.kind = "Literal" THEN SocketAddr_to_string(dest.addr)
    ELSE dest.host \o dest.port

into_https_string(dest) == <<"https://">> \o into_uri_string(dest)

FedDest_hostname(dest) ==
    IF dest.kind = "Literal" THEN dest.addr.ip ELSE dest.host

FedDest_port_none(dest) == None
FedDest_port(dest) ==
    IF dest.kind = "Literal" THEN Some(dest.addr.port)
    ELSE IF parse_u16(Tail(dest.port)).ok THEN Some(parse_u16(Tail(dest.port)).val)
    ELSE None

\* get_ip_with_port and add_port_to_hostname.
get_ip_with_port(destination_str) ==
    IF parse_SocketAddr(destination_str).ok
    THEN Some(Literal(parse_SocketAddr(destination_str).val))
    ELSE IF parse_IpAddr(destination_str).ok
    THEN Some(Literal(SocketAddr(parse_IpAddr(destination_str).val, 8448)))
    ELSE None

add_port_to_hostname_bare(destination_str) ==
    LET pos == find(destination_str, ":") IN
    IF pos = None THEN Named(destination_str, <<>>)
    ELSE Named(split_at(destination_str, pos[1])[1], split_at(destination_str, pos[1])[2])

add_port_to_hostname(destination_str) ==
    LET pos == find(destination_str, ":") IN
    IF pos = None THEN Named(destination_str, <<":", "8448">>)
    ELSE Named(split_at(destination_str, pos[1])[1], split_at(destination_str, pos[1])[2])

\* ruma_identifiers_validation::server_name::validate.
validate(name) ==
    IF /\ Len(name) \in {1, 3}
       /\ name[1] \in Hostnames \/ <<name[1]>> \in IpLiterals
       /\ Len(name) = 3 => (name[2] = ":" /\ name[3] \in PortDigits)
    THEN Ok(<<>>)
    ELSE Err("InvalidServerName")

\* handle_resolve_error: an Io error is returned, any other kind is logged.
handle_resolve_error(e) ==
    IF e = "Io" THEN Err("Error") ELSE Ok(<<>>)

\* The answers of DnsResolver::lookup_ip: the addresses of the name, or a
\* ResolveError of kind Io or of another kind.
LookupIpOutcomes == {Ok("addresses"), Err("Io"), Err("NoRecordsFound")}
IpsOf(hostname) == {<<"ip of", hostname>>}

\* The answers of DnsResolver::srv_lookup: a lookup with one SRV record, a
\* lookup without an SRV record, or a ResolveError.  The record of the
\* _matrix-fed._tcp name points to target.example.org:9001, the record of the
\* legacy _matrix._tcp name to legacy.example.org:9002.
SrvOutcomes == {Ok("record"), Ok("empty"), Err("Io"), Err("NoRecordsFound")}

SrvNames(hostname) ==
    << <<"_matrix-fed._tcp.">> \o hostname \o <<".">>,
       <<"_matrix._tcp.">> \o hostname \o <<".">> >>

SrvLookup(name, outcome) ==
    IF outcome.val = "empty" THEN <<>>
    ELSE IF name[1] = "_matrix-fed._tcp."
    THEN <<[target |-> <<"target.example.org", ".">>, port |-> 9001]>>
    ELSE <<[target |-> <<"legacy.example.org", ".">>, port |-> 9002]>>

\* query_srv_record::handle_successful_srv: the first record, if there is one.
handle_successful_srv(srv) ==
    IF srv = <<>> THEN None
    ELSE Some(Named(trim_end_matches(srv[1].target, "."),
                    <<":", u16_to_string(srv[1].port)>>))

\* The answers to the GET of /.well-known/matrix/server: the request fails,
\* or a response with a status whose body cannot be read, or one whose body
\* is a text of some length that is some JSON value or no JSON at all.
Json(m_server) == [json |-> TRUE, m_server |-> m_server]
NotJson == [json |-> FALSE]
Text(len, body) == Ok([len |-> len, body |-> body])
Delegations ==
    {<<"deleg.example.org">>, <<"deleg.example.org", ":", "9001">>, <<"1.1.1.1">>}
WellKnownFailures ==
    {[sent |-> FALSE],
     [sent |-> TRUE, status |-> 404, text |-> Text(2, Json(None))],
     [sent |-> TRUE, status |-> 200, text |-> Err("Reqwest")],
     [sent |-> TRUE, status |-> 200, text |-> Text(12288, Json(Some(<<"deleg.example.org">>)))],
     [sent |-> TRUE, status |-> 200, text |-> Text(9, NotJson)],
     [sent |-> TRUE, status |-> 200, text |-> Text(2, Json(None))],
     [sent |-> TRUE, status |-> 200, text |-> Text(30, Json(Some(<<"deleg example">>)))]}
WellKnownResponses ==
    WellKnownFailures
        \cup {[sent |-> TRUE, status |-> 200, text |-> Text(30, Json(Some(d)))] :
                 d \in Delegations}

is_success(status) == status >= 200 /\ status < 300

\* request_well_known from the response on: the delegated hostname, none when
\* the response does not name one, and the error of reading the body.
well_known_delegation(response) ==
    IF ~response.sent THEN Ok(None)
    ELSE IF ~is_success(response.status) THEN Ok(None)
    ELSE IF ~response.text.ok THEN response.text
    ELSE IF response.text.val.len >= 12288 THEN Ok(None)
    ELSE LET body == response.text.val.body
             m_server == IF body.json THEN option_unwrap_or(body.m_server, <<>>)
                         ELSE <<>>
         IN  IF ~validate(m_server).ok THEN Ok(None) ELSE Ok(Some(m_server))

\* The end of resolve_actual_destination: the host header is taken from the
\* hostname local, the destination is the one the steps arrived at.
host_header(hostname) ==
    IF parse_SocketAddr(hostname).ok THEN Literal(parse_SocketAddr(hostname).val)
    ELSE IF parse_IpAddr(hostname).ok
    THEN Named(parse_IpAddr(hostname).val, <<":", "8448">>)
    ELSE IF find(hostname, ":") # None
    THEN Named(split_at(hostname, find(hostname, ":")[1])[1],
               split_at(hostname, find(hostname, ":")[1])[2])
    ELSE Named(hostname, <<":", "8448">>)

\* The positions of a resolution.
Returned(r, result) ==
    [r EXCEPT !.at = "done", !.wait = <<>>, !.result = Some(result)]

Finished(r, actual_destination) ==
    Returned(r, Ok(<<actual_destination, into_uri_string(host_header(r.hostname))>>))

\* query_and_cache_override(overname, hostname, port) awaits lookup_ip; next
\* is what the caller does when it returns Ok: it goes on to the well-known
\* request, or it ends the resolution with a destination.
AwaitLookupIp(r, overname, hostname, port, next) ==
    [r EXCEPT !.at = "lookup_ip",
              !.wait = [overname |-> overname, hostname |-> hostname, port |-> port,
                        next |-> next]]

AwaitWellKnown(r) == [r EXCEPT !.at = "well_known", !.wait = <<>>]

\* query_srv_record(hostname) awaits the lookup of its i-th name; delegated
\* tells the call of step 3.3 from the call of step 4.
AwaitSrvLookup(r, hostname, i, delegated) ==
    [r EXCEPT !.at = "srv_lookup",
              !.wait = [hostname |-> hostname, i |-> i, delegated |-> delegated]]

Logged(r, call, name, outcome) ==
    [r EXCEPT !.log = Append(@, [call |-> call, name |-> name, outcome |-> outcome])]

\* Steps 2 and 3.2: a hostname with a port.
HostnameWithPort(r, name) ==
    LET host == split_at(name, find(name, ":")[1])[1]
        port == split_at(name, find(name, ":")[1])[2]
    IN  AwaitLookupIp(r, host, host, result_unwrap_or(parse_u16(port), 8448),
                      [ret |-> Named(host, port)])

\* resolve_actual_destination up to its first await.
Started(destination) ==
    LET r == [at |-> "idle", destination |-> destination, hostname |-> destination,
              wait |-> <<>>, log |-> <<>>, result |-> None]
    IN  IF get_ip_with_port(destination) # None
        THEN Finished(r, get_ip_with_port(destination)[1])
        ELSE IF find(destination, ":") # None
        THEN HostnameWithPort(r, destination)
        ELSE IF destination \notin DOMAIN overrides
        THEN AwaitLookupIp(r, destination, destination, 8448, [well_known |-> TRUE])
        ELSE AwaitWellKnown(r)

Resolve ==
    /\ resolution.at \in {"idle", "done"}
    /\ \E destination \in ServerNames : resolution' = Started(destination)
    /\ UNCHANGED <<apiVars, countVars, snapVars, visVars, overrides, reqVars, queueVars>>

\* lookup_ip returns to query_and_cache_override.
LookupIpReturns ==
    /\ resolution.at = "lookup_ip"
    /\ \E outcome \in LookupIpOutcomes :
        LET w == resolution.wait
            r == Logged(resolution, "lookup_ip", w.hostname, outcome)
            handled == IF outcome.ok THEN Ok(<<>>) ELSE handle_resolve_error(outcome.err)
        IN  /\ overrides' =
                   IF outcome.ok
                   THEN Put(overrides, w.overname,
                            [ips |-> IpsOf(w.hostname), port |-> w.port])
                   ELSE overrides
            /\ resolution' =
                   IF ~handled.ok THEN Returned(r, handled)
                   ELSE IF "well_known" \in DOMAIN w.next THEN AwaitWellKnown(r)
                   ELSE Finished(r, w.next.ret)
    /\ UNCHANGED <<apiVars, countVars, snapVars, visVars, reqVars, queueVars>>

\* The well-known request returns to request_well_known, and that to step 3.
WellKnownReturns ==
    /\ resolution.at = "well_known"
    /\ \E response \in WellKnownResponses :
        LET r == Logged(resolution, "well_known", resolution.destination, response)
            delegation == well_known_delegation(response)
            delegated_hostname == delegation.val[1]
            r3 == [r EXCEPT !.hostname =
                                into_uri_string(add_port_to_hostname(delegated_hostname))]
        IN  resolution' =
                IF ~delegation.ok THEN Returned(r, delegation)
                ELSE IF delegation.val = None
                THEN AwaitSrvLookup(r, r.destination, 1, FALSE)
                ELSE IF get_ip_with_port(delegated_hostname) # None
                THEN Finished(r3, get_ip_with_port(delegated_hostname)[1])
                ELSE IF find(delegated_hostname, ":") # None
                THEN HostnameWithPort(r3, delegated_hostname)
                ELSE AwaitSrvLookup(r3, delegated_hostname, 1, TRUE)
    /\ UNCHANGED <<apiVars, countVars, snapVars, visVars, overrides, reqVars, queueVars>>

\* query_srv_record has returned to steps 3.3 / 3.4 (delegated) or 4 / 5.
AfterSrv(r, hostname_override) ==
    LET w == r.wait
        overname == IF w.delegated THEN w.hostname ELSE r.hostname
        force_port == FedDest_port(hostname_override[1])
    IN  IF hostname_override # None
        THEN AwaitLookupIp(r, overname, FedDest_hostname(hostname_override[1]),
                           option_unwrap_or(force_port, 8448),
                           [ret |-> IF force_port # None
                                    THEN Named(overname,
                                               <<":", u16_to_string(force_port[1])>>)
                                    ELSE add_port_to_hostname(overname)])
        ELSE AwaitLookupIp(r, w.hostname, w.hostname, 8448,
                           [ret |-> add_port_to_hostname(w.hostname)])

\* srv_lookup returns to query_srv_record.
SrvLookupReturns ==
    /\ resolution.at = "srv_lookup"
    /\ \E outcome \in SrvOutcomes :
        LET w == resolution.wait
            name == SrvNames(w.hostname)[w.i]
            r == Logged(resolution, "srv_lookup", trim_end_matches(name, "."), outcome)
            handled == IF outcome.ok THEN Ok(<<>>) ELSE handle_resolve_error(outcome.err)
        IN  resolution' =
                IF outcome.ok THEN AfterSrv(r, handle_successful_srv(SrvLookup(name, outcome)))
                ELSE IF ~handled.ok THEN Returned(r, handled)
                ELSE IF w.i < Len(SrvNames(w.hostname))
                THEN AwaitSrvLookup(r, w.hostname, w.i + 1, w.delegated)
                ELSE AfterSrv(r, None)
    /\ UNCHANGED <<apiVars, countVars, snapVars, visVars, overrides, reqVars, queueVars>>

InitResolve ==
    InitCount /\ global = None /\ InitSnapEmpty /\ InitVisEmpty /\ InitSendEmpty

NextResolve ==
    \/ Resolve
    \/ LookupIpReturns
    \/ WellKnownReturns
    \/ SrvLookupReturns

\* Resolutions of server names, one after the other, over one override map.
SpecResolve == InitResolve /\ [][NextResolve]_vars

(***************************************************************************)
(* sending::send: send_request                                             *)
(*                                                                         *)
(* The request itself is not modelled: the server name it is sent to, the  *)
(* destination it is sent at, and the class of the answer are.             *)
(***************************************************************************)

\* The configuration: the name of this server and the denied IP range.
config_server_name == <<"example.com">>
cidr_range_denylist == {<<"10.0.0.1">>}

\* The server names requests are sent to.
SendDestinations == ServerNames \cup {config_server_name, <<"10.0.0.1">>}

valid_cidr_range_any(ip) == TRUE
valid_cidr_range(ip) == ip \notin cidr_range_denylist

validate_ip(ip) ==
    IF ~valid_cidr_range(ip) THEN Err("Not allowed to send requests to this IP")
    ELSE Ok(<<>>)

\* ServerName::host of a hostname or an IPv4 address with or without a port.
ServerName_host(name) ==
    IF find(name, ":") = None THEN name ELSE split_at(name, find(name, ":")[1])[1]

validate_destination_ip_literal(destination) ==
    validate_ip(parse_IpAddr(ServerName_host(destination)).val)

validate_destination(destination) ==
    IF destination = config_server_name
    THEN Err("Won't send federation request to ourselves")
    ELSE IF parse_IpAddr(ServerName_host(destination)).ok
    THEN validate_destination_ip_literal(destination)
    ELSE Ok(<<>>)

\* Url::host_str of the URL made from the https string of a destination.
url_host_str(string) ==
    LET authority == Tail(string) IN
    IF authority[1] = "["
    THEN SubSeq(authority, 2, find(authority, "]")[1] - 1)
    ELSE ServerName_host(authority)

validate_url(string) ==
    IF parse_IpAddr(url_host_str(string)).ok
    THEN validate_ip(parse_IpAddr(url_host_str(string)).val)
    ELSE Ok(<<>>)

ActualDestination(destination, host, cached) ==
    [destination |-> destination, host |-> host,
     string |-> into_https_string(destination), cached |-> cached]

\* get_actual_destination: the read of the cache.
cached_result_none(name) == None
cached_result(name) ==
    IF name \in DOMAIN actual_destinations THEN Some(actual_destinations[name])
    ELSE None

\* The answers of Client::execute: an error, or a response with a status and
\* a body that is the response of the request or is not.
HttpOutcomes ==
    {Err("Reqwest"), Ok([status |-> 200, body |-> "response"]),
     Ok([status |-> 200, body |-> "malformed"]), Ok([status |-> 500, body |-> "error"])}

try_from_http_response(http_response) ==
    IF http_response.body = "response" THEN Ok("Response") ELSE Err("FromHttpResponseError")

\* handle_response: whether the destination is written to the cache.
caches_any(response, actual) == TRUE
caches(response, actual) == response.ok /\ ~actual.cached

\* handle_response: the cache after it, and what it returns.
handle_response_cache(destination, actual, http_response) ==
    IF /\ is_success(http_response.status)
       /\ caches(try_from_http_response(http_response), actual)
    THEN Put(actual_destinations, destination, <<actual.destination, actual.host>>)
    ELSE actual_destinations

handle_response(destination, actual, http_response) ==
    IF ~is_success(http_response.status) THEN Err("FederationError")
    ELSE IF ~try_from_http_response(http_response).ok
    THEN Err("Server returned bad 200 response.")
    ELSE try_from_http_response(http_response)

handle_error(e) == Err(e)

\* send_request from the return of get_actual_destination to the await of
\* Client::execute.
Prepared(req, actual) ==
    IF ~validate_url(actual.string).ok
    THEN [req EXCEPT !.at = "done", !.actual = Some(actual),
                     !.result = Some(validate_url(actual.string))]
    ELSE [req EXCEPT !.at = "execute", !.actual = Some(actual)]

\* send_request up to its first await.
SendRequest ==
    /\ request.at \in {"idle", "done"}
    /\ \E destination \in SendDestinations :
        LET req == [at |-> "idle", destination |-> destination, actual |-> None,
                    result |-> None]
            hit == cached_result(destination)
        IN  IF ~allow_federation
            THEN /\ request' = [req EXCEPT !.at = "done",
                                           !.result = Some(Err("Federation is disabled."))]
                 /\ UNCHANGED resolution
            ELSE IF ~validate_destination(destination).ok
            THEN /\ request' = [req EXCEPT !.at = "done",
                                           !.result = Some(validate_destination(destination))]
                 /\ UNCHANGED resolution
            ELSE IF hit # None
            THEN /\ request' = Prepared(req, ActualDestination(hit[1][1], hit[1][2], TRUE))
                 /\ UNCHANGED resolution
            ELSE /\ request' = [req EXCEPT !.at = "resolve"]
                 /\ resolution' = Started(destination)
    /\ UNCHANGED <<apiVars, countVars, snapVars, visVars, overrides, actual_destinations,
                   allow_federation, queueVars>>

\* resolve_actual_destination returns to get_actual_destination.
ResolveReturns ==
    /\ request.at = "resolve"
    /\ resolution.at = "done"
    /\ request' =
           IF ~resolution.result[1].ok
           THEN [request EXCEPT !.at = "done", !.result = resolution.result]
           ELSE Prepared(request, ActualDestination(resolution.result[1].val[1],
                                                    resolution.result[1].val[2], FALSE))
    /\ UNCHANGED <<apiVars, countVars, snapVars, visVars, resVars, actual_destinations,
                   allow_federation, queueVars>>

\* Client::execute returns to send_request: handle_response or handle_error.
ExecuteReturns ==
    /\ request.at = "execute"
    /\ \E outcome \in HttpOutcomes :
        LET actual == request.actual[1] IN
        /\ actual_destinations' =
               IF outcome.ok
               THEN handle_response_cache(request.destination, actual, outcome.val)
               ELSE actual_destinations
        /\ request' =
               [request EXCEPT
                   !.at = "done",
                   !.result = Some(IF outcome.ok
                                   THEN handle_response(request.destination, actual,
                                                        outcome.val)
                                   ELSE handle_error(outcome.err))]
    /\ UNCHANGED <<apiVars, countVars, snapVars, visVars, resVars, allow_federation, queueVars>>

InitSend ==
    /\ InitCount /\ global = None /\ InitSnapEmpty /\ InitVisEmpty
    /\ InitApiEmpty
    /\ InitResEmpty
    /\ InitReqEmpty
    /\ allow_federation \in BOOLEAN
    /\ InitQueueEmpty
    /\ startup_netburst_keep = -1

NextSend ==
    \/ SendRequest
    \/ LookupIpReturns
    \/ WellKnownReturns
    \/ SrvLookupReturns
    \/ ResolveReturns
    \/ ExecuteReturns

\* Requests to servers, one after the other, over one cache of destinations.
SpecSend == InitSend /\ [][NextSend]_vars

(***************************************************************************)
(* service::sending: the queue of requests and its worker                  *)
(*                                                                         *)
(* The send_* and flush_* functions write the requests to the db and hand  *)
(* one message per request to the channel; the worker at the other end of  *)
(* the channel sends, per destination, transactions of stored requests.    *)
(* A request is known by its queue id, the position at which it was        *)
(* queued.  The process can be killed at any step and started again.       *)
(***************************************************************************)

\* Destination, SendingEvent and Msg.
Appservice(id) == [kind |-> "Appservice", id |-> id]
Push(user, pushkey) == [kind |-> "Push", user |-> user, pushkey |-> pushkey]
Normal(server) == [kind |-> "Normal", server |-> server]

Pdu(pdu_id) == [kind |-> "Pdu", id |-> pdu_id]
Edu(serialized) == [kind |-> "Edu", json |-> serialized]
Flush == [kind |-> "Flush"]

Msg(dest, event, queue_id) == [dest |-> dest, event |-> event, queue_id |-> queue_id]

\* The servers of the room, this server among them, and the lists of servers
\* the *_servers functions are called with.
RemoteServers == {<<"example.org">>, <<"deleg.example.org">>}
room_servers == <<config_server_name, <<"example.org">>, <<"deleg.example.org">> >>
ServerLists ==
    {<<s>> : s \in RemoteServers}
        \cup {<< <<"example.org">>, <<"deleg.example.org">> >>}

Destinations ==
    {Normal(s) : s \in RemoteServers}
        \cup {Push("@alice:example.com", "pushkey"), Appservice("bridge")}

\* The events: "$bad" is a PDU the remote server rejects as malformed.
PduIds == {"$a", "$bad"}
Edus == {"typing"}
poison(event) == event.kind = "Pdu" /\ event.id = "$bad"

\* The values startup_netburst_keep is configured with; -1 keeps everything.
NetburstKeeps == {-1, 1}

\* The ceilings of a transaction.
PDU_LIMIT == 50
EDU_LIMIT == 100

Range(s) == {s[i] : i \in DOMAIN s}
Del(f, x) == [y \in DOMAIN f \ {x} |-> f[y]]

\* server_is_ours and the filter of send_pdu_room, send_edu_room, flush_room.
server_is_ours(name) == name = config_server_name
not_ours(servers) == SelectSeq(servers, LAMBDA name : ~server_is_ours(name))

\* Data::queue_requests: the requests are stored under new queue ids, which
\* are returned in the order of the requests.
queue_requests_keys(requests) == [i \in DOMAIN requests |-> Len(queue_log) + i]
queue_requests(requests) == sending_db \cup Range(queue_requests_keys(requests))

\* The send_* functions, which the running process calls: the requests are
\* queued, then one message per request, with its queue id, is to be
\* dispatched.
Queue_unsaved(requests) ==
    /\ dispatching = <<>>
    /\ requests # <<>>
    /\ Len(queue_log) + Len(requests) <= MaxQueued
    /\ queue_log' = queue_log \o requests
    /\ dispatching' =
           [i \in DOMAIN requests |->
               Msg(requests[i].dest, requests[i].event, <<queue_requests_keys(requests)[i]>>)]
    /\ UNCHANGED <<apiVars, countVars, snapVars, visVars, resVars, reqVars, up,
                   startup_netburst_keep, sending_db, channel, statuses, flushing,
                   delivered, abandoned, crashes>>

Queue(requests) ==
    /\ dispatching = <<>>
    /\ requests # <<>>
    /\ Len(queue_log) + Len(requests) <= MaxQueued
    /\ sending_db' = queue_requests(requests)
    /\ queue_log' = queue_log \o requests
    /\ dispatching' =
           [i \in DOMAIN requests |->
               Msg(requests[i].dest, requests[i].event, <<queue_requests_keys(requests)[i]>>)]
    /\ UNCHANGED <<apiVars, countVars, snapVars, visVars, resVars, reqVars, up,
                   startup_netburst_keep, channel, statuses, flushing, delivered,
                   abandoned, crashes>>

send_pdu_servers(servers, pdu_id) ==
    /\ up
    /\ Queue([i \in DOMAIN servers |->
                 [dest |-> Normal(servers[i]), event |-> Pdu(pdu_id)]])

send_edu_servers(servers, serialized) ==
    /\ up
    /\ Queue([i \in DOMAIN servers |->
                 [dest |-> Normal(servers[i]), event |-> Edu(serialized)]])

SendPduPush ==
    \E dest \in {d \in Destinations : d.kind = "Push"}, pdu_id \in PduIds \ {"$bad"} :
        /\ up
        /\ Queue(<<[dest |-> dest, event |-> Pdu(pdu_id)]>>)

SendPduAppservice ==
    \E dest \in {d \in Destinations : d.kind = "Appservice"}, pdu_id \in PduIds \ {"$bad"} :
        /\ up
        /\ Queue(<<[dest |-> dest, event |-> Pdu(pdu_id)]>>)

SendPduRoom == \E pdu_id \in PduIds : send_pdu_servers(not_ours(room_servers), pdu_id)

SendPduServers ==
    \E servers \in ServerLists, pdu_id \in PduIds : send_pdu_servers(servers, pdu_id)

SendEduServer ==
    \E server \in RemoteServers, serialized \in Edus :
        /\ up
        /\ Queue(<<[dest |-> Normal(server), event |-> Edu(serialized)]>>)

SendEduRoom ==
    \E serialized \in Edus : send_edu_servers(not_ours(room_servers), serialized)

SendEduServers ==
    \E servers \in ServerLists, serialized \in Edus : send_edu_servers(servers, serialized)

\* flush_servers: one Flush message per server, nothing is stored.
flush_servers_stored(servers) ==
    /\ up
    /\ dispatching = <<>>
    /\ \A i \in DOMAIN channel : channel[i].event # Flush
    /\ Len(queue_log) + Len(servers) <= MaxQueued
    /\ sending_db' = sending_db \cup {Len(queue_log) + i : i \in DOMAIN servers}
    /\ queue_log' =
           queue_log \o [i \in DOMAIN servers |-> [dest |-> Normal(servers[i]), event |-> Flush]]
    /\ dispatching' = [i \in DOMAIN servers |-> Msg(Normal(servers[i]), Flush, <<>>)]
    /\ UNCHANGED <<apiVars, countVars, snapVars, visVars, resVars, reqVars, up,
                   startup_netburst_keep, channel, statuses, flushing, delivered,
                   abandoned, crashes>>

flush_servers(servers) ==
    /\ up
    /\ dispatching = <<>>
    /\ \A i \in DOMAIN channel : channel[i].event # Flush
    /\ dispatching' = [i \in DOMAIN servers |-> Msg(Normal(servers[i]), Flush, <<>>)]
    /\ UNCHANGED <<apiVars, countVars, snapVars, visVars, resVars, reqVars, up,
                   startup_netburst_keep, queue_log, sending_db, channel, statuses,
                   flushing, delivered, abandoned, crashes>>

FlushRoom == flush_servers(not_ours(room_servers))

FlushServers == \E servers \in ServerLists : flush_servers(servers)

\* dispatch: the next message of the call goes into the channel.
Dispatch ==
    /\ up
    /\ dispatching # <<>>
    /\ channel' = Append(channel, Head(dispatching))
    /\ dispatching' = Tail(dispatching)
    /\ UNCHANGED <<apiVars, countVars, snapVars, visVars, resVars, reqVars, up,
                   startup_netburst_keep, queue_log, sending_db, statuses, flushing,
                   delivered, abandoned, crashes>>

\* Data::delete_all_requests_for and cleanup_events.  The removed requests
\* are noted as abandoned.
Abandon(keys, why) ==
    [k \in DOMAIN abandoned \cup keys |-> IF k \in keys THEN why ELSE abandoned[k]]

stored_for(stored, dest) == {k \in stored : queue_log[k].dest = dest}

delete_all_requests_for(dest) == sending_db \ stored_for(sending_db, dest)

CleanupEvents ==
    \E dest \in {d \in Destinations : d.kind = "Appservice"} :
        /\ up
        /\ stored_for(sending_db, dest) # {}
        /\ sending_db' = delete_all_requests_for(dest)
        /\ abandoned' = Abandon(stored_for(sending_db, dest), "cleanup")
        /\ UNCHANGED <<apiVars, countVars, snapVars, visVars, resVars, reqVars, up,
                       startup_netburst_keep, queue_log, channel, dispatching, statuses,
                       flushing, delivered, crashes>>

\* The worker.  The stored requests of a destination in the order of their
\* queue ids, and the transaction made of them: the requests from the first
\* on, as long as the ceilings allow.
sorted(S) == SelectSeq([k \in DOMAIN queue_log |-> k], LAMBDA k : k \in S)
sorted_desc(S) == [i \in DOMAIN sorted(S) |-> sorted(S)[Len(sorted(S)) + 1 - i]]

count(keys, n, kind) == Cardinality({i \in 1..n : queue_log[keys[i]].event.kind = kind})
fits(keys, n) == count(keys, n, "Pdu") <= PDU_LIMIT /\ count(keys, n, "Edu") <= EDU_LIMIT

take_all(keys) == keys
take(keys) ==
    SubSeq(keys, 1, CHOOSE n \in 0..Len(keys) :
                        fits(keys, n) /\ (n = Len(keys) \/ ~fits(keys, n + 1)))

in_order_desc(stored, dest) == sorted_desc(stored_for(stored, dest))
in_order(stored, dest) == sorted(stored_for(stored, dest))

select_events(stored, dest) == take(in_order(stored, dest))

Running(batch) == [at |-> "running", batch |-> batch]
Failed(batch) == [at |-> "failed", batch |-> batch]

\* The worker goes on with a destination: its next transaction, if it has
\* stored requests.
Continue(stored, dest) ==
    IF select_events(stored, dest) # <<>>
    THEN Put(statuses, dest, Running(select_events(stored, dest)))
    ELSE Del(statuses, dest)

\* The destinations a Flush message makes the worker wait for.
flush_waits(dest) ==
    IF dest \in DOMAIN statuses /\ statuses[dest].at = "running" THEN {dest} ELSE {}

\* The worker receives the next message of the channel.
WorkerReceive ==
    /\ up
    /\ channel # <<>>
    /\ flushing = {}
    /\ channel' = Tail(channel)
    /\ LET msg == Head(channel) IN
       IF msg.event = Flush
       THEN /\ flushing' = flush_waits(msg.dest)
            /\ UNCHANGED statuses
       ELSE /\ statuses' =
                   IF msg.dest \in DOMAIN statuses THEN statuses
                   ELSE Continue(sending_db, msg.dest)
            /\ UNCHANGED flushing
    /\ UNCHANGED <<apiVars, countVars, snapVars, visVars, resVars, reqVars, up,
                   startup_netburst_keep, queue_log, sending_db, dispatching, delivered,
                   abandoned, crashes>>

\* The db after a transaction the destination has answered, and after one
\* that has failed.
completed_keep_rejected(batch) ==
    sending_db \ {k \in Range(batch) : ~poison(queue_log[k].event)}
completed(batch) == sending_db \ Range(batch)

failed_drop(batch) == sending_db \ Range(batch)
failed(batch) == sending_db

\* The transactions a destination has answered.
transactions(dest) == IF dest \in DOMAIN delivered THEN delivered[dest] ELSE <<>>

\* The destination answers the transaction: its requests leave the db, the
\* ones it rejects as well.
TransactionCompletes(dest) ==
    /\ up
    /\ dest \in DOMAIN statuses
    /\ statuses[dest].at = "running"
    /\ LET batch == statuses[dest].batch
           rejected == {k \in Range(batch) : poison(queue_log[k].event)}
       IN  /\ sending_db' = completed(batch)
           /\ delivered' = Put(delivered, dest, Append(transactions(dest), batch))
           /\ abandoned' = Abandon(rejected \cap sending_db, "rejected")
           /\ statuses' = Continue(completed(batch), dest)
    /\ flushing' = flushing \ {dest}
    /\ UNCHANGED <<apiVars, countVars, snapVars, visVars, resVars, reqVars, up,
                   startup_netburst_keep, queue_log, channel, dispatching, crashes>>

\* The destination is unreachable or the request times out.
TransactionFails(dest) ==
    /\ up
    /\ dest \in DOMAIN statuses
    /\ statuses[dest].at = "running"
    /\ sending_db' = failed(statuses[dest].batch)
    /\ statuses' = Put(statuses, dest, Failed(statuses[dest].batch))
    /\ flushing' = flushing \ {dest}
    /\ UNCHANGED <<apiVars, countVars, snapVars, visVars, resVars, reqVars, up,
                   startup_netburst_keep, queue_log, channel, dispatching, delivered,
                   abandoned, crashes>>

\* The backoff of a failed transaction is over: it is sent again.
Retry(dest) ==
    /\ up
    /\ dest \in DOMAIN statuses
    /\ statuses[dest].at = "failed"
    /\ statuses' = Put(statuses, dest, Running(statuses[dest].batch))
    /\ UNCHANGED <<apiVars, countVars, snapVars, visVars, resVars, reqVars, up,
                   startup_netburst_keep, queue_log, sending_db, channel, dispatching,
                   flushing, delivered, abandoned, crashes>>

\* The process is killed: the db stays, the channel and the worker are gone.
killed_lost == {}
killed == sending_db

Kill ==
    /\ up
    /\ crashes < MaxCrashes
    /\ up' = FALSE
    /\ crashes' = crashes + 1
    /\ sending_db' = killed
    /\ channel' = <<>>
    /\ dispatching' = <<>>
    /\ statuses' = <<>>
    /\ flushing' = {}
    /\ UNCHANGED <<apiVars, countVars, snapVars, visVars, resVars, reqVars,
                   startup_netburst_keep, queue_log, delivered, abandoned>>

\* The process starts: of the stored requests of a destination the first
\* startup_netburst_keep are kept and sent at once, the others are dropped.
kept(dest) ==
    LET backlog == in_order(sending_db, dest) IN
    IF startup_netburst_keep < 0 \/ Len(backlog) <= startup_netburst_keep
    THEN Range(backlog)
    ELSE Range(SubSeq(backlog, 1, startup_netburst_keep))

Startup ==
    /\ ~up
    /\ up' = TRUE
    /\ LET keeps == UNION {kept(dest) : dest \in Destinations} IN
       /\ sending_db' = keeps
       /\ abandoned' = Abandon(sending_db \ keeps, "dropped")
       /\ statuses' =
              [dest \in {d \in Destinations : kept(d) # {}} |->
                  Running(select_events(keeps, dest))]
    /\ UNCHANGED <<apiVars, countVars, snapVars, visVars, resVars, reqVars,
                   startup_netburst_keep, queue_log, channel, dispatching, flushing,
                   delivered, crashes>>

InitQueue ==
    /\ InitCount /\ global = None /\ InitSnapEmpty /\ InitVisEmpty
    /\ InitApiEmpty
    /\ InitResEmpty
    /\ InitReqEmpty
    /\ allow_federation = TRUE
    /\ InitQueueEmpty
    /\ startup_netburst_keep \in NetburstKeeps

Worker ==
    \/ WorkerReceive
    \/ \E dest \in Destinations : TransactionCompletes(dest)
    \/ \E dest \in Destinations : TransactionFails(dest)
    \/ \E dest \in Destinations : Retry(dest)

NextQueue ==
    \/ SendPduPush
    \/ SendPduAppservice
    \/ SendPduRoom
    \/ SendPduServers
    \/ SendEduServer
    \/ SendEduRoom
    \/ SendEduServers
    \/ FlushRoom
    \/ FlushServers
    \/ Dispatch
    \/ CleanupEvents
    \/ Worker
    \/ Kill
    \/ Startup

\* The queue under calls of every kind, a worker, and kills of the process.
SpecQueue == InitQueue /\ [][NextQueue]_vars

\* Requests to the servers only.
NextDeliver ==
    \/ SendPduServers
    \/ SendEduServer
    \/ Dispatch
    \/ Worker
    \/ Kill
    \/ Startup

\* The worker and the calls are scheduled fairly, the process is started
\* again after a kill, a failed transaction is sent again, and no destination
\* stays unreachable for ever: a transaction that is sent again and again is
\* answered in the end.
Fairness ==
    /\ WF_vars(Dispatch)
    /\ WF_vars(WorkerReceive)
    /\ WF_vars(Startup)
    /\ \A dest \in Destinations :
           /\ WF_vars(Retry(dest))
           /\ SF_vars(TransactionCompletes(dest))

SpecDeliver == InitQueue /\ [][NextDeliver]_vars /\ Fairness

\* The process starts with a backlog for one server: MaxBacklog or fewer
\* requests, all PDUs, all EDUs, or the two in turn.
Backlog(n, kinds) ==
    [i \in 1..n |->
        [dest |-> Normal(<<"example.org">>),
         event |-> IF kinds = "Pdu" \/ (kinds = "both" /\ i % 2 = 0) THEN Pdu("$a")
                   ELSE Edu("typing")]]

InitBatch ==
    /\ InitCount /\ global = None /\ InitSnapEmpty /\ InitVisEmpty
    /\ InitApiEmpty
    /\ InitResEmpty
    /\ InitReqEmpty
    /\ allow_federation = TRUE
    /\ startup_netburst_keep = -1
    /\ up = FALSE
    /\ \E n \in 0..MaxBacklog, kinds \in {"Pdu", "Edu", "both"} :
           /\ queue_log = Backlog(n, kinds)
           /\ sending_db = 1..n
    /\ channel = <<>>
    /\ dispatching = <<>>
    /\ statuses = <<>>
    /\ flushing = {}
    /\ delivered = <<>>
    /\ abandoned = <<>>
    /\ crashes = 0

NextBatch ==
    \/ Startup
    \/ \E dest \in Destinations : TransactionCompletes(dest)
    \/ \E dest \in Destinations : TransactionFails(dest)
    \/ \E dest \in Destinations : Retry(dest)

\* The worker over a backlog.
SpecBatch == InitBatch /\ [][NextBatch]_vars

(***************************************************************************)
(* api::server::send: PUT /_matrix/federation/v1/send/{txnId}              *)
(***************************************************************************)

\* The users the EDUs name, one of each remote server, and the local user
\* with the devices to-device events are sent to.
alice == [localpart |-> "alice", server |-> "one"]
carol == [localpart |-> "carol", server |-> "two"]
dave == [localpart |-> "dave", server |-> "example.com"]
all_device_ids(user_id) == IF user_id = dave THEN <<"dev1", "dev2">> ELSE <<>>

\* Edu, with what the services the handlers ask answer for it: acl_check
\* (acl), state_cache.room_members / is_joined (member, joined), and whether
\* the to-device event deserializes (valid).
PresenceEdu(push) == [kind |-> "Presence", push |-> push]
ReceiptEdu(user_id, acl, member) ==
    [kind |-> "Receipt", user_id |-> user_id, acl |-> acl, member |-> member]
TypingEdu(user_id, is_typing, acl, joined) ==
    [kind |-> "Typing", user_id |-> user_id, typing |-> is_typing, acl |-> acl,
     joined |-> joined]
DeviceListUpdateEdu(user_id) == [kind |-> "DeviceListUpdate", user_id |-> user_id]
DirectToDeviceEdu(sender, message_id, messages) ==
    [kind |-> "DirectToDevice", sender |-> sender, message_id |-> message_id,
     messages |-> messages]
SigningKeyUpdateEdu(user_id, master_key) ==
    [kind |-> "SigningKeyUpdate", user_id |-> user_id, master_key |-> master_key]
CustomEdu == [kind |-> "_Custom"]

\* A message of a DirectDeviceContent: the target user, the target device
\* ("*" for all devices), and whether the event deserializes and is stored
\* (valid).  The messages
\* are in the order of the BTreeMap: device ids before AllDevices.
Message(target_user_id, target_device_id, valid) ==
    [target_user_id |-> target_user_id, target_device_id |-> target_device_id,
     valid |-> valid]

InboundEdus ==
    {PresenceEdu(<<alice>>), PresenceEdu(<<carol, alice>>)}
        \cup {ReceiptEdu(alice, TRUE, TRUE), ReceiptEdu(carol, TRUE, TRUE),
              ReceiptEdu(alice, FALSE, TRUE), ReceiptEdu(alice, TRUE, FALSE)}
        \cup {TypingEdu(alice, TRUE, TRUE, TRUE), TypingEdu(carol, TRUE, TRUE, TRUE),
              TypingEdu(alice, FALSE, TRUE, TRUE), TypingEdu(alice, TRUE, TRUE, FALSE),
              TypingEdu(alice, TRUE, FALSE, TRUE)}
        \cup {DeviceListUpdateEdu(alice), DeviceListUpdateEdu(carol)}
        \cup {SigningKeyUpdateEdu(alice, TRUE), SigningKeyUpdateEdu(carol, TRUE),
              SigningKeyUpdateEdu(alice, FALSE)}
        \cup {DirectToDeviceEdu(alice, "m1", <<Message(dave, "dev1", TRUE)>>),
              DirectToDeviceEdu(carol, "m1", <<Message(dave, "dev1", TRUE)>>),
              DirectToDeviceEdu(alice, "m1", <<Message(dave, "dev1", TRUE),
                                               Message(dave, "dev2", FALSE)>>),
              DirectToDeviceEdu(alice, "m1", <<Message(dave, "*", TRUE)>>)}
        \cup {CustomEdu}

\* The bodies of the requests: pdus is the number of PDUs, edus the EDUs that
\* are followed by custom further EDUs of an unknown type.  The first family
\* has the sizes at the limits, the second one EDU, or a to-device EDU and
\* one more.
Body(origin, n_pdus, edus, custom) ==
    [origin |-> origin, pdus |-> n_pdus, edus |-> edus, custom |-> custom]
DirectToDeviceEdus == {e \in InboundEdus : e.kind = "DirectToDevice"}
EduLists ==
    {<<>>} \cup {<<e>> : e \in InboundEdus}
        \cup {<<e, f>> : e \in DirectToDeviceEdus, f \in InboundEdus}
Transactions ==
    {Body(origin, n_pdus, edus, custom) :
        origin \in Servers, n_pdus \in {0, 1, 50, 51},
        edus \in {<<>>, <<DeviceListUpdateEdu(alice)>>}, custom \in {0, 99, 100, 101}}
        \cup {Body(origin, 0, edus, 0) : origin \in Servers, edus \in EduLists}
edus_len(body) == Len(body.edus) + body.custom

\* Whether some to-device event of the body cannot be added.
malformed(body) ==
    \E i \in DOMAIN body.edus :
        /\ body.edus[i].kind = "DirectToDevice"
        /\ \E j \in DOMAIN body.edus[i].messages : ~body.edus[i].messages[j].valid

\* The timeouts of typing: typing_federation_timeout_s, in the model's ticks.
typing_federation_timeout == 2

\* typing_add and typing_remove on the typing map of the room.
typing_add(room, user_id, timeout) == Put(room, user_id, timeout)
typing_remove(room, user_id) == [u \in DOMAIN room \ {user_id} |-> room[u]]

\* What a handler returns: the stores after it, its Result, and for the
\* record how many updates it skipped because the user is not of the origin.
Handled(st, result, skipped) == [st |-> st, result |-> result, skipped |-> skipped]

RECURSIVE presence_loop(_, _, _, _)
presence_loop(st, origin, push, skipped) ==
    IF push = <<>> THEN Handled(st, Ok("unit"), skipped)
    ELSE IF server_name(Head(push)) # origin
         THEN presence_loop(st, origin, Tail(push), skipped + 1)
         ELSE presence_loop([st EXCEPT !.presence = @ \cup {Head(push)}], origin,
                            Tail(push), skipped)

handle_edu_presence_any(st, origin, presence) ==
    Handled([st EXCEPT !.presence = @ \cup {presence.push[i] : i \in DOMAIN presence.push}],
            Ok("unit"), 0)
handle_edu_presence(st, origin, presence) == presence_loop(st, origin, presence.push, 0)

handle_edu_receipt(st, origin, receipt) ==
    IF ~receipt.acl THEN Handled(st, Ok("unit"), 0)
    ELSE IF server_name(receipt.user_id) # origin THEN Handled(st, Ok("unit"), 1)
    ELSE IF receipt.member
         THEN Handled([st EXCEPT !.read_receipt = @ \cup {receipt.user_id}], Ok("unit"), 0)
         ELSE Handled(st, Ok("unit"), 0)

handle_edu_typing(st, origin, content) ==
    IF server_name(content.user_id) # origin THEN Handled(st, Ok("unit"), 1)
    ELSE IF ~content.acl THEN Handled(st, Ok("unit"), 0)
    ELSE IF ~content.joined THEN Handled(st, Ok("unit"), 0)
    ELSE IF content.typing
         THEN Handled([st EXCEPT !.typing = typing_add(@, content.user_id,
                                                       now + typing_federation_timeout)],
                      Ok("unit"), 0)
         ELSE Handled([st EXCEPT !.typing = typing_remove(@, content.user_id)],
                      Ok("unit"), 0)

handle_edu_device_list_update(st, origin, content) ==
    IF server_name(content.user_id) # origin THEN Handled(st, Ok("unit"), 1)
    ELSE Handled([st EXCEPT !.device_key_updates = @ \cup {content.user_id}], Ok("unit"), 0)

\* users.add_to_device_event.
ToDeviceEvent(sender, message_id) == [sender |-> sender, message_id |-> message_id]
add_to_device_event(st, sender, target_user_id, target_device_id, message_id) ==
    [st EXCEPT !.todevice =
        Put(@, <<target_user_id, target_device_id>>,
            Append(IF <<target_user_id, target_device_id>> \in DOMAIN @
                   THEN @[<<target_user_id, target_device_id>>] ELSE <<>>,
                   ToDeviceEvent(sender, message_id)))]

\* The devices a message is for.
target_devices(message) ==
    IF message.target_device_id = "*" THEN all_device_ids(message.target_user_id)
    ELSE <<message.target_device_id>>

RECURSIVE add_to_devices(_, _, _, _)
add_to_devices(st, content, message, devices) ==
    IF devices = <<>> THEN st
    ELSE add_to_devices(add_to_device_event(st, content.sender, message.target_user_id,
                                            Head(devices), content.message_id),
                        content, message, Tail(devices))

\* The loop over the messages: an event that does not deserialize ends the
\* handler with an error, the events added before it stay.
RECURSIVE messages_loop(_, _, _)
messages_loop(st, content, messages) ==
    IF messages = <<>> THEN Handled(st, Ok("unit"), 0)
    ELSE IF target_devices(Head(messages)) # <<>> /\ ~Head(messages).valid
         THEN Handled(st, Err("InvalidParam"), 0)
         ELSE messages_loop(add_to_devices(st, content, Head(messages),
                                           target_devices(Head(messages))),
                            content, Tail(messages))

existing_txnid(st, sender, message_id) == <<sender, message_id>> \in st.transaction_ids

handle_edu_direct_to_device(st, origin, content) ==
    IF server_name(content.sender) # origin THEN Handled(st, Ok("unit"), 1)
    ELSE IF existing_txnid(st, content.sender, content.message_id)
         THEN Handled(st, Ok("unit"), 0)
    ELSE LET looped == messages_loop(st, content, content.messages)
         IN  IF ~looped.result.ok THEN looped
             ELSE Handled([looped.st EXCEPT !.transaction_ids =
                              @ \cup {<<content.sender, content.message_id>>}],
                          Ok("unit"), 0)

handle_edu_signing_key_update(st, origin, content) ==
    IF server_name(content.user_id) # origin THEN Handled(st, Ok("unit"), 1)
    ELSE IF content.master_key
         THEN Handled([st EXCEPT !.cross_signing_keys = @ \cup {content.user_id}],
                      Ok("unit"), 0)
         ELSE Handled(st, Ok("unit"), 0)

handle_edu(st, origin, edu) ==
    CASE edu.kind = "Presence" -> handle_edu_presence(st, origin, edu)
      [] edu.kind = "Receipt" -> handle_edu_receipt(st, origin, edu)
      [] edu.kind = "Typing" -> handle_edu_typing(st, origin, edu)
      [] edu.kind = "DeviceListUpdate" -> handle_edu_device_list_update(st, origin, edu)
      [] edu.kind = "DirectToDevice" -> handle_edu_direct_to_device(st, origin, edu)
      [] edu.kind = "SigningKeyUpdate" -> handle_edu_signing_key_update(st, origin, edu)
      [] OTHER -> Handled(st, Ok("unit"), 0)

\* handle_edus: the EDUs in their order; the first error ends the loop.
RECURSIVE handle_edus(_, _, _, _)
handle_edus(st, origin, edus, skipped) ==
    IF edus = <<>> THEN Handled(st, Ok("unit"), skipped)
    ELSE LET h == handle_edu(st, origin, Head(edus))
         IN  IF ~h.result.ok THEN Handled(h.st, h.result, skipped + h.skipped)
             ELSE handle_edus(h.st, origin, Tail(edus), skipped + h.skipped)

\* handle_pdus: every PDU is handed to handle_incoming_pdu; its result goes
\* into the response and does not end the request.
handle_pdus(st, body) == [st EXCEPT !.timeline = @ + body.pdus]

\* The stores the handlers write, as one record.
Stores == [timeline |-> services.timeline, presence |-> services.presence,
           read_receipt |-> services.read_receipt,
           device_key_updates |-> services.device_key_updates,
           cross_signing_keys |-> services.cross_signing_keys,
           todevice |-> services.todevice,
           transaction_ids |-> services.transaction_ids, typing |-> typing]

\* The limits of a transaction.
pdus_within_limit_any(body) == TRUE
pdus_within_limit(body) == ~(body.pdus > 50)
edus_within_limit(body) == ~(edus_len(body) > 100)

\* send_transaction_message_route.
send_transaction_message_route(st, origin, body) ==
    IF origin # body.origin THEN Handled(st, Err("Forbidden"), 0)
    ELSE IF ~pdus_within_limit(body) THEN Handled(st, Err("Forbidden"), 0)
    ELSE IF ~edus_within_limit(body) THEN Handled(st, Err("Forbidden"), 0)
    ELSE handle_edus(handle_pdus(st, body), origin, body.edus, 0)

SendTransactionMessageRoute ==
    \E origin \in Servers, body \in Transactions :
        LET h == send_transaction_message_route(Stores, origin, body) IN
        /\ transaction.count < MaxTransactions
        /\ services' = [timeline |-> h.st.timeline, presence |-> h.st.presence,
                        read_receipt |-> h.st.read_receipt,
                        device_key_updates |-> h.st.device_key_updates,
                        cross_signing_keys |-> h.st.cross_signing_keys,
                        todevice |-> h.st.todevice,
                        transaction_ids |-> h.st.transaction_ids]
        /\ typing' = h.st.typing
        /\ transaction' = [count |-> transaction.count + 1, origin |-> origin,
                           body_origin |-> body.origin, pdus |-> body.pdus,
                           edus |-> edus_len(body), malformed |-> malformed(body),
                           result |-> h.result, skipped |-> h.skipped]
        /\ UNCHANGED <<countVars, snapVars, visVars, sendVars, now, maintain,
                       missingVars, lockVars, prefixes>>

InitInbound ==
    InitCount /\ global = None /\ InitSnapEmpty /\ InitVisEmpty /\ InitSendEmpty

NextInbound == SendTransactionMessageRoute

SpecInbound == InitInbound /\ [][NextInbound]_vars

(***************************************************************************)
(* rooms::typing: who is typing in a room, until which timestamp           *)
(***************************************************************************)

TypingUsers == {alice, carol}

\* typing_add: the insert under the write lock, with a timeout in the
\* future, as the routes and handle_edu_typing pass it.
TypingAdd ==
    \E user_id \in TypingUsers, timeout \in (now + 1)..(now + typing_federation_timeout) :
        /\ typing' = typing_add(typing, user_id, timeout)
        /\ UNCHANGED <<countVars, snapVars, visVars, sendVars, inboundVars, now,
                       maintain, missingVars, lockVars, prefixes>>

\* typing_remove: the remove under the write lock.
TypingRemove ==
    \E user_id \in TypingUsers :
        /\ typing' = typing_remove(typing, user_id)
        /\ UNCHANGED <<countVars, snapVars, visVars, sendVars, inboundVars, now,
                       maintain, missingVars, lockVars, prefixes>>

\* The clock utils::millis_since_unix_epoch reads.
Tick ==
    /\ now < MaxNow
    /\ now' = now + 1
    /\ UNCHANGED <<countVars, snapVars, visVars, sendVars, inboundVars, typing,
                   maintain, missingVars, lockVars, prefixes>>

\* typings_maintain, its first block: reads the clock and, under the read
\* lock, collects the users whose timeout is before it; the lock is dropped
\* at the end of the block.
removable_users(room, current_timestamp) ==
    {user \in DOMAIN room : room[user] < current_timestamp}

TypingsMaintainRead ==
    /\ maintain.at = "idle"
    /\ maintain' = [at |-> IF removable_users(typing, now) = {} THEN "idle" ELSE "write",
                    current_timestamp |-> now,
                    removable |-> removable_users(typing, now)]
    /\ UNCHANGED <<countVars, snapVars, visVars, sendVars, inboundVars, typing, now,
                   missingVars, lockVars, prefixes>>

\* typings_maintain, its second block: under the write lock removes the
\* users collected before, whatever their timeout is by now.
TypingsMaintainWrite ==
    /\ maintain.at = "write"
    /\ typing' = [u \in DOMAIN typing \ maintain.removable |-> typing[u]]
    /\ maintain' = [maintain EXCEPT !.at = "idle"]
    /\ UNCHANGED <<countVars, snapVars, visVars, sendVars, inboundVars, now,
                   missingVars, lockVars, prefixes>>

InitTyping ==
    InitCount /\ global = None /\ InitSnapEmpty /\ InitVisEmpty /\ InitSendEmpty

NextTyping ==
    \/ TypingAdd
    \/ TypingRemove
    \/ Tick
    \/ TypingsMaintainRead
    \/ TypingsMaintainWrite

SpecTyping == InitTyping /\ [][NextTyping]_vars

(***************************************************************************)
(* api::server::get_missing_events: POST /_matrix/federation/v1/           *)
(* get_missing_events/{roomId}                                             *)
(***************************************************************************)

\* The events of the timeline: the room of each, its prev_events, and what
\* server_can_see_event answers the origin for it.  An event that is not in
\* the domain is not in the timeline.  The graphs have chains, diamonds,
\* cycles, an event of another room and an event the origin may not see.
GraphEvents == {"$a", "$b", "$c"}
StoredPdu(event_room_id, prev_events, visible) ==
    [room_id |-> event_room_id, prev_events |-> prev_events, visible |-> visible]
Timelines ==
    {[event_id \in {"$a", "$b"} \cup present |->
        CASE event_id = "$a" -> StoredPdu("!room", prev_a, TRUE)
          [] event_id = "$b" -> StoredPdu("!room", prev_b, visible_b)
          [] OTHER -> StoredPdu(room_c, prev_c, TRUE)] :
        prev_a \in {<<>>, <<"$b">>, <<"$c">>, <<"$b", "$c">>},
        prev_b \in {<<>>, <<"$a">>, <<"$c">>, <<"$a", "$c">>},
        prev_c \in {<<>>, <<"$a">>},
        visible_b \in BOOLEAN,
        room_c \in {"!room", "!other"},
        present \in {{}, {"$c"}}}

\* The requests of the origin for !room.
MissingRequests ==
    [latest_events : {<<"$a">>, <<"$a", "$b">>, <<"$c">>, <<"$c", "$a">>},
     earliest_events : {{}, {"$b"}, {"$c"}},
     limit : {0, 1, 2, MaxLimit},
     server_in_room : BOOLEAN]

\* timeline.get_pdu_json.
get_pdu_json(event_id) == IF event_id \in DOMAIN pdus THEN Some(pdus[event_id]) ELSE None

\* state_accessor.server_can_see_event for the origin of the request.
can_see_any(event_id) == TRUE
can_see(event_id) == pdus[event_id].visible

\* The condition of the while loop.
loop_continues_unlimited(m) == m.i < Len(m.queued_events)
loop_continues(m) == m.i < Len(m.queued_events) /\ Len(m.events) < m.body.limit

\* The head of the route: the origin must be in the room; then the loop
\* starts with latest_events as the queue.
GetMissingEventsRoute ==
    \E body \in MissingRequests :
        /\ missing.at = "idle"
        /\ missing' = IF ~body.server_in_room
                      THEN [at |-> "done", body |-> body, i |-> 0,
                            queued_events |-> <<>>, events |-> <<>>,
                            result |-> Err("Forbidden")]
                      ELSE [at |-> "loop", body |-> body, i |-> 0,
                            queued_events |-> body.latest_events, events |-> <<>>,
                            result |-> Ok("unit")]
        /\ UNCHANGED <<countVars, snapVars, visVars, sendVars, inboundVars, typingVars,
                       pdus, lockVars, prefixes>>

\* One iteration of the loop, on queued_events[i].
loop_iteration(m) ==
    LET event_id == m.queued_events[m.i + 1]
        pdu == get_pdu_json(event_id)
    IN  IF pdu = None THEN [m EXCEPT !.i = @ + 1]
        ELSE IF pdu[1].room_id # "!room"
             THEN [m EXCEPT !.at = "done", !.result = Err("InvalidParam")]
        ELSE IF event_id \in m.body.earliest_events THEN [m EXCEPT !.i = @ + 1]
        ELSE IF ~can_see(event_id) THEN [m EXCEPT !.i = @ + 1]
        ELSE [m EXCEPT !.queued_events = @ \o pdu[1].prev_events,
                       !.events = Append(@, event_id),
                       !.i = @ + 1]

LoopIteration ==
    /\ missing.at = "loop"
    /\ loop_continues(missing)
    /\ missing' = loop_iteration(missing)
    /\ UNCHANGED <<countVars, snapVars, visVars, sendVars, inboundVars, typingVars,
                   pdus, lockVars, prefixes>>

\* The loop ends: the route answers with the events.
LoopExit ==
    /\ missing.at = "loop"
    /\ ~loop_continues(missing)
    /\ missing' = [missing EXCEPT !.at = "done"]
    /\ UNCHANGED <<countVars, snapVars, visVars, sendVars, inboundVars, typingVars,
                   pdus, lockVars, prefixes>>

\* The services outside the API handlers, at their start.
InitCoreEmpty ==
    /\ InitCount /\ global = None /\ InitSnapEmpty /\ InitVisEmpty
    /\ InitResEmpty /\ InitReqEmpty /\ allow_federation = TRUE /\ InitQueueEmpty
    /\ startup_netburst_keep = -1

InitMissing ==
    /\ InitCoreEmpty
    /\ InitInboundEmpty /\ InitTypingEmpty /\ InitLockEmpty /\ InitPrefixEmpty
    /\ pdus \in Timelines
    /\ missing = [at |-> "idle"]

NextMissing ==
    \/ GetMissingEventsRoute
    \/ LoopIteration
    \/ LoopExit

SpecMissing == InitMissing /\ [][NextMissing]_vars

\* The route is an async task the runtime keeps polling: the loop goes on
\* until it ends.
SpecMissingLive ==
    InitMissing /\ [][NextMissing]_vars /\ WF_vars(LoopIteration) /\ WF_vars(LoopExit)

(***************************************************************************)
(* The cache locks: which steps of user_can_see_event, server_can_see_event*)
(* and send_request run with a cache locked                                *)
(***************************************************************************)

\* The steps of a call: taking a lock (the guard is a temporary of the
\* statement), the one operation on the map, the end of the statement that
\* drops the guard, and the awaits and storage reads outside.
Lock(cache, mode) == [op |-> "lock", on |-> cache, mode |-> mode]
MapOp(cache, what) == [op |-> "map", on |-> cache, mode |-> what]
Unlock(cache) == [op |-> "unlock", on |-> cache, mode |-> "drop"]
Io(kind, what) == [op |-> "io", on |-> kind, mode |-> what]

CacheLocks ==
    {"user_visibility_cache", "server_visibility_cache", "actual_destinations", "overrides"}

\* user_can_see_event: the lookup in the cache, and on a miss the reads of
\* the storage and the insert.
user_can_see_event_held(cached) ==
    <<Io("storage", "pdu_shortstatehash"),
      Lock("user_visibility_cache", "mutex"), MapOp("user_visibility_cache", "get_mut")>>
        \o (IF cached THEN <<Unlock("user_visibility_cache")>>
            ELSE <<Io("storage", "is_joined"), Io("storage", "state_get"),
                   Io("storage", "user_membership"),
                   MapOp("user_visibility_cache", "insert"),
                   Unlock("user_visibility_cache")>>)
user_can_see_event_steps(cached) ==
    <<Io("storage", "pdu_shortstatehash"),
      Lock("user_visibility_cache", "mutex"), MapOp("user_visibility_cache", "get_mut"),
      Unlock("user_visibility_cache")>>
        \o (IF cached THEN <<>>
            ELSE <<Io("storage", "is_joined"), Io("storage", "state_get"),
                   Io("storage", "user_membership"),
                   Lock("user_visibility_cache", "mutex"),
                   MapOp("user_visibility_cache", "insert"),
                   Unlock("user_visibility_cache")>>)

server_can_see_event_steps(cached) ==
    <<Io("storage", "pdu_shortstatehash"),
      Lock("server_visibility_cache", "mutex"),
      MapOp("server_visibility_cache", "get_mut"),
      Unlock("server_visibility_cache")>>
        \o (IF cached THEN <<>>
            ELSE <<Io("storage", "state_get"), Io("storage", "room_members"),
                   Io("storage", "user_membership"),
                   Lock("server_visibility_cache", "mutex"),
                   MapOp("server_visibility_cache", "insert"),
                   Unlock("server_visibility_cache")>>)

\* query_and_cache_override: the lookup, then the insert.
query_and_cache_override_steps ==
    <<Io("dns", "lookup_ip"),
      Lock("overrides", "write"), MapOp("overrides", "insert"), Unlock("overrides")>>

\* request_well_known: contains_key, the lookup when there is no override,
\* and the fetch.
request_well_known_steps(overridden) ==
    <<Lock("overrides", "read"), MapOp("overrides", "contains_key"), Unlock("overrides")>>
        \o (IF overridden THEN <<>> ELSE query_and_cache_override_steps)
        \o <<Io("https", "well_known")>>

\* resolve_actual_destination, by the step of the resolution that gives the
\* destination: 1 an IP literal, 2 a hostname with a port, 3.3 a well-known
\* file and an SRV record, 4 no well-known file and an SRV record.
ResolutionPaths == {"1", "2", "3.3", "4"}
resolve_actual_destination_steps(path, overridden) ==
    CASE path = "1" -> <<>>
      [] path = "2" -> query_and_cache_override_steps
      [] OTHER -> request_well_known_steps(overridden)
                      \o <<Io("dns", "srv_lookup")>> \o query_and_cache_override_steps

\* send_request: get_actual_destination, the request, and handle_response
\* with the insert of a destination that was not cached.
send_request_steps(cached, path, overridden) ==
    <<Lock("actual_destinations", "read"), MapOp("actual_destinations", "get"),
      Unlock("actual_destinations")>>
        \o (IF cached THEN <<>> ELSE resolve_actual_destination_steps(path, overridden))
        \o <<Io("request", "client.execute"), Io("request", "response.bytes")>>
        \o (IF cached THEN <<>>
            ELSE <<Lock("actual_destinations", "write"),
                   MapOp("actual_destinations", "insert"),
                   Unlock("actual_destinations")>>)

\* The calls that run concurrently.
Calls ==
    {user_can_see_event_steps(cached) : cached \in BOOLEAN}
        \cup {server_can_see_event_steps(cached) : cached \in BOOLEAN}
        \cup {send_request_steps(TRUE, "1", TRUE)}
        \cup {send_request_steps(FALSE, path, overridden) :
                path \in ResolutionPaths, overridden \in BOOLEAN}

\* The locks a caller holds, and whether a caller may take a lock.
held(c) == {cache \in CacheLocks : \E h \in cache_locks[cache] : h[1] = c}
lock_free(cache, mode) ==
    IF mode = "read" THEN \A h \in cache_locks[cache] : h[2] = "read"
    ELSE cache_locks[cache] = {}

\* The step a caller is at, and the one it takes next.
Idle == [steps |-> <<>>, pc |-> 0]
doing(c) == IF callers[c].pc = 0 THEN Io("none", "start") ELSE callers[c].steps[callers[c].pc]
next_step(c) == callers[c].steps[callers[c].pc + 1]

\* A caller starts a call.
Call(c) ==
    \E steps \in Calls :
        /\ callers[c] = Idle
        /\ callers' = [callers EXCEPT ![c] = [steps |-> steps, pc |-> 0]]
        /\ UNCHANGED <<countVars, snapVars, visVars, sendVars, inboundVars, typingVars,
                       missingVars, cache_locks, prefixes>>

\* A caller goes on to its next step; it waits for a lock that is not free.
CallStep(c) ==
    /\ callers[c].pc < Len(callers[c].steps)
    /\ next_step(c).op = "lock" => lock_free(next_step(c).on, next_step(c).mode)
    /\ callers' = [callers EXCEPT ![c].pc = @ + 1]
    /\ cache_locks' =
          CASE next_step(c).op = "lock" ->
                  [cache_locks EXCEPT ![next_step(c).on] = @ \cup {<<c, next_step(c).mode>>}]
            [] next_step(c).op = "unlock" ->
                  [cache_locks EXCEPT ![next_step(c).on] = {h \in @ : h[1] # c}]
            [] OTHER -> cache_locks
    /\ UNCHANGED <<countVars, snapVars, visVars, sendVars, inboundVars, typingVars,
                   missingVars, prefixes>>

\* The call returns.
CallReturn(c) ==
    /\ callers[c] # Idle
    /\ callers[c].pc = Len(callers[c].steps)
    /\ callers' = [callers EXCEPT ![c] = Idle]
    /\ UNCHANGED <<countVars, snapVars, visVars, sendVars, inboundVars, typingVars,
                   missingVars, cache_locks, prefixes>>

InitLocks ==
    /\ InitCoreEmpty
    /\ InitInboundEmpty /\ InitTypingEmpty /\ InitMissingEmpty /\ InitPrefixEmpty
    /\ cache_locks = [cache \in CacheLocks |-> {}]
    /\ callers = [c \in Threads |-> Idle]

NextLocks ==
    \E c \in Threads :
        \/ Call(c)
        \/ CallStep(c)
        \/ CallReturn(c)

SpecLocks == InitLocks /\ [][NextLocks]_vars

(***************************************************************************)
(* Destination::get_prefix: the key prefix of a destination's queue entries*)
(***************************************************************************)

\* Strings are their UTF-8 bytes, which never have the byte 0xFF: "+" is 43,
\* "$" 36, "@" 64, ":" 58, "a" 97, "b" 98.
Strings(alphabet) ==
    {<<>>} \cup {<<x>> : x \in alphabet} \cup {<<x, y>> : x, y \in alphabet}

\* Server names have letters, digits, "-" and "."; appservice ids and
\* pushkeys are any strings, the empty one and ones with a sigil included;
\* user ids start with "@".
PrefixServerNames == Strings({97, 98}) \ {<<>>}
AppserviceIds == Strings({43, 36, 97})
PrefixUserIds == {<<64, 97, 58, 97>>, <<64, 98, 58, 97>>}
Pushkeys == Strings({36, 97})
PrefixDestinations ==
    {Normal(server) : server \in PrefixServerNames}
        \cup {Appservice(id) : id \in AppserviceIds}
        \cup {Push(user, pushkey) : user \in PrefixUserIds, pushkey \in Pushkeys}

\* What follows the prefix in a key: a pdu id or the bytes of a count, any
\* bytes.
KeySuffixes == {<<1>>, <<255>>, <<97, 255>>, <<255, 97>>}

get_prefix_no_separator(dest) ==
    CASE dest.kind = "Normal" -> dest.server
      [] dest.kind = "Appservice" -> <<43>> \o dest.id
      [] dest.kind = "Push" -> <<36>> \o dest.user \o <<255>> \o dest.pushkey
get_prefix(dest) ==
    CASE dest.kind = "Normal" -> dest.server \o <<255>>
      [] dest.kind = "Appservice" -> <<43>> \o dest.id \o <<255>>
      [] dest.kind = "Push" -> <<36>> \o dest.user \o <<255>> \o dest.pushkey \o <<255>>

\* A key starts with a prefix: what a prefix scan of the store selects.
starts_with(key, prefix) ==
    Len(prefix) <= Len(key) /\ SubSeq(key, 1, Len(prefix)) = prefix

\* A request is queued for one of the two destinations: its key is the
\* prefix of the destination and a suffix.
QueuePrefixed ==
    \E dest \in {prefixes.a, prefixes.b}, suffix \in KeySuffixes :
        /\ prefixes.at = "ready"
        /\ Cardinality(prefixes.db) < MaxEntries
        /\ prefixes' = [prefixes EXCEPT
                           !.db = @ \cup {[dest |-> dest, key |-> get_prefix(dest) \o suffix]}]
        /\ UNCHANGED <<countVars, snapVars, visVars, sendVars, inboundVars, typingVars,
                       missingVars, lockVars>>

\* delete_all_requests_for, as cleanup_events calls it: the entries whose key
\* starts with the prefix of the destination are removed.
DeleteAllRequestsFor ==
    \E dest \in {prefixes.a, prefixes.b} :
        /\ prefixes.at = "ready"
        /\ prefixes.db # {}
        /\ prefixes' = [prefixes EXCEPT
                           !.db = {e \in @ : ~starts_with(e.key, get_prefix(dest))},
                           !.deleted_for = Some(dest)]
        /\ UNCHANGED <<countVars, snapVars, visVars, sendVars, inboundVars, typingVars,
                       missingVars, lockVars>>

InitPrefix ==
    /\ InitCoreEmpty
    /\ InitInboundEmpty /\ InitTypingEmpty /\ InitMissingEmpty /\ InitLockEmpty
    /\ \E a, b \in PrefixDestinations :
          prefixes = [at |-> "ready", a |-> a, b |-> b, db |-> {}, deleted_for |-> None]

NextPrefix ==
    \/ QueuePrefixed
    \/ DeleteAllRequestsFor

SpecPrefix == InitPrefix /\ [][NextPrefix]_vars


(***************************************************************************)
(* Properties of the snapshot store                                        *)
(***************************************************************************)

\* The pairs and the map a handle resolves to when its state is the map f.
PairsOf(f) == {<<k, f[k]>> : k \in DOMAIN f}
IdsOf(f) == [k \in DOMAIN f |-> <<"$", f[k]>>]

\* h, or a handle on its parent chain, has no stored diff.
RECURSIVE ChainMissing(_)
ChainMissing(h) ==
    \/ h \notin DOMAIN statediffs
    \/ /\ statediffs[h].parent # None
       /\ ChainMissing(statediffs[h].parent[1])

\* C1: every handle built from a sequence of (key, event) assignments resolves,
\* through the stored diffs of its chain, to the naive in-order replay of
\* those assignments, by state_full_shortids and by state_full_ids, and so
\* does the call that has just returned.
C1_FoldEqualsReplay ==
    /\ \A h \in DOMAIN replay :
           /\ state_full_shortids(shortstatehash_statediff, h) = Ok(PairsOf(replay[h]))
           /\ state_full_ids(shortstatehash_statediff, shorteventids, h)
                  = Ok(IdsOf(replay[h]))
    /\ (resolved # None /\ resolved[1].op = "state_full_ids"
            /\ resolved[1].shortstatehash \in DOMAIN replay)
        => resolved[1].result = Ok(IdsOf(replay[resolved[1].shortstatehash]))

\* A chain of two layers whose top layer overwrites a key has been resolved.
C1_Witness ==
    /\ resolved # None
    /\ resolved[1].op = "state_full_ids"
    /\ resolved[1].shortstatehash \in DOMAIN replay
    /\ statediffs[resolved[1].shortstatehash].parent # None
    /\ statediffs[resolved[1].shortstatehash].removed # {}
    /\ resolved[1].result.ok

\* C2: get_statediff after save_statediff returns the parent, the added set and
\* the removed set that were saved; the stored value holds the separator word
\* only when removed is non-empty, and no entry starts with the zero word.
C2_RoundTrip ==
    \A h \in DOMAIN shortstatehash_statediff :
        LET d == statediffs[h]
            value == shortstatehash_statediff[h]
        IN  /\ get_statediff(shortstatehash_statediff, h) = Ok(d)
            /\ value[1] = (IF d.parent = None THEN 0 ELSE d.parent[1])
            /\ Len(value) = 1 + 2 * Cardinality(d.added)
                              + (IF d.removed = {} THEN 0
                                 ELSE 1 + 2 * Cardinality(d.removed))
            /\ \A c \in d.added \cup d.removed : c[1] # 0

\* A diff with a parent, an added entry and a removed entry is stored on top
\* of a root, and both decode to what was saved.
C2_Witness ==
    \E h \in DOMAIN shortstatehash_statediff :
        /\ statediffs[h].parent # None
        /\ statediffs[h].added # {}
        /\ statediffs[h].removed # {}
        /\ statediffs[h].parent[1] \in DOMAIN shortstatehash_statediff
        /\ get_statediff(shortstatehash_statediff, h) = Ok(statediffs[h])

\* C4: when the requested handle or a handle on its parent chain has no stored
\* diff, state_full_shortids, state_full_ids and state_get_id return an error
\* (a Database error from the resolution itself), never a state map or an event.
C4_MissingHandleFails ==
    /\ \A h \in 1..(counter + 1) :
           ChainMissing(h) =>
               /\ state_full_shortids(shortstatehash_statediff, h) = Err("Database")
               /\ state_full_ids(shortstatehash_statediff, shorteventids, h)
                      = Err("Database")
               /\ \A k \in shortstatekeys :
                      Service_state_get_id(shortstatehash_statediff, shortstatekeys,
                                           shorteventids, h, k) = Err("Database")
    /\ (resolved # None /\ ChainMissing(resolved[1].shortstatehash))
        => ~resolved[1].result.ok

\* A handle that has a diff but whose parent has none has been resolved.
C4_Witness ==
    /\ resolved # None
    /\ resolved[1].op = "state_full_ids"
    /\ resolved[1].shortstatehash \in DOMAIN shortstatehash_statediff
    /\ ChainMissing(resolved[1].shortstatehash)
    /\ ~resolved[1].result.ok

C6_ResolutionStable ==
    [][\A h \in DOMAIN shortstatehash_statediff :
           /\ h \in DOMAIN shortstatehash_statediff'
           /\ shortstatehash_statediff'[h] = shortstatehash_statediff[h]
           /\ state_full_ids(shortstatehash_statediff', shorteventids', h)
                  = state_full_ids(shortstatehash_statediff, shorteventids, h)]_vars

\* A handle has been resolved after a snapshot was created on top of it.
C6_Witness ==
    /\ resolved # None
    /\ resolved[1].op = "state_full_ids"
    /\ resolved[1].result.ok
    /\ \E h \in DOMAIN statediffs :
           statediffs[h].parent = Some(resolved[1].shortstatehash)

(***************************************************************************)
(* Properties of the handle allocation                                     *)
(***************************************************************************)

\* C3: under every interleaving of the callers, the values next_count returns
\* are strictly increasing in the order of their return, all greater than the
\* counter read at construction, and so never 0 and never repeated.
C3_StrictlyMonotonic ==
    /\ \A i, j \in DOMAIN returned : i < j => returned[i] < returned[j]
    /\ \A i \in DOMAIN returned : returned[i] > initial /\ returned[i] # 0
    /\ counter = stored_count(global)

\* Two values have been returned while another caller is inside next_count.
C3_Witness ==
    /\ Len(returned) >= 2
    /\ \E t \in Threads : pc[t].at = "stored"
    /\ \E t \in Threads : pc[t].at = "reading" \/ pc[t].at = "idle"

(***************************************************************************)
(* Properties of the visibility resolver                                   *)
(***************************************************************************)

\* The snapshot handle of the event the call that has just returned was about.
SeenHandle == shorteventid_shortstatehash[seen[1].call.event]
SeenHasSnapshot ==
    seen # None /\ seen[1].call.event \in DOMAIN shorteventid_shortstatehash

\* The content of the history visibility event at a handle, if there is one.
VisibilityEventAt(h) == state_get(h, RoomHistoryVisibility, "").val

Entries(cache) == {cache[i] : i \in DOMAIN cache}

\* C7: when the history visibility at the event's snapshot is world_readable,
\* user_can_see_event and server_can_see_event return true for every actor,
\* on a cache miss and on a cache hit, whatever the actor's membership.
C7_WorldReadableSeesAll ==
    /\ \A h \in DOMAIN state_at :
           history_visibility(h) = Ok("world_readable") =>
               /\ \A u \in Users : user_visibility(u, h) = Ok(TRUE)
               /\ \A o \in Servers : server_visibility(o, h) = Ok(TRUE)
               /\ \A e \in Entries(user_visibility_cache) \cup Entries(server_visibility_cache) :
                      e.key[2] = h => e.value = TRUE
    /\ (SeenHasSnapshot /\ history_visibility(SeenHandle) = Ok("world_readable"))
        => seen[1].result = Ok(TRUE)

\* An actor without any membership record, a user who is not joined and has no
\* member event at the snapshot or the server that has no user, has been
\* answered from the cache about a world_readable snapshot.
C7_Witness ==
    /\ SeenHasSnapshot
    /\ history_visibility(SeenHandle) = Ok("world_readable")
    /\ seen[1].hit
    /\ seen[1].result = Ok(TRUE)
    /\ \/ /\ seen[1].call.kind = "user"
          /\ ~is_joined(seen[1].call.actor)
          /\ state_get(SeenHandle, RoomMember, seen[1].call.actor) = Ok(None)
       \/ /\ seen[1].call.kind = "server"
          /\ seen[1].call.actor = "two"

\* C8: when the history visibility event at the event's snapshot is unset or
\* its content is malformed, user_can_see_event returns a value, false for a
\* user who is not currently joined and true for one who is.
C8_SharedByDefault ==
    (/\ SeenHasSnapshot
     /\ seen[1].call.kind = "user"
     /\ VisibilityEventAt(SeenHandle) \in {None, Some("malformed")})
    => seen[1].result = Ok(is_joined(seen[1].call.actor))

\* C9: every call returns the decision a computation without the cache
\* returns at that moment.
C9_CacheTransparent ==
    seen # None => seen[1].result = seen[1].fresh

\* C10: every entry of the user and of the server visibility cache equals the
\* decision the uncached computation returns in the current state.
C10_CachedDecisionsValid ==
    /\ \A e \in Entries(user_visibility_cache) :
           Ok(e.value) = user_visibility(e.key[1], e.key[2])
    /\ \A e \in Entries(server_visibility_cache) :
           Ok(e.value) = server_visibility(e.key[1], e.key[2])

\* The content of a user's member event at a handle, if there is one.
MemberEventAt(h, user_id) == state_get(h, RoomMember, user_id).val

\* The call that has just returned was a can_see call of the given kind about
\* an event whose snapshot has the given history visibility content.
SeenAt(kind, content) ==
    /\ SeenHasSnapshot
    /\ seen[1].call.kind = kind
    /\ VisibilityEventAt(SeenHandle) = Some(content)

\* C11: a can_see call about an event that has no snapshot handle returns true
\* to every user and every server, whatever the room's history visibility and
\* the actor's membership, and leaves both visibility caches as they were.
C11_FailOpenOnUnknownSnapshot ==
    [][(/\ seen' # None
        /\ seen'[1].call.kind \in {"user", "server"}
        /\ seen'[1].call.event \notin DOMAIN shorteventid_shortstatehash)
       => /\ seen'[1].result = Ok(TRUE)
          /\ ~seen'[1].hit
          /\ user_visibility_cache' = user_visibility_cache
          /\ server_visibility_cache' = server_visibility_cache]_vars

\* An actor who is not joined has been answered true about an event without
\* a snapshot while the room's current history visibility is joined.
C11_Witness ==
    /\ seen # None
    /\ seen[1].call.kind \in {"user", "server"}
    /\ seen[1].call.event \notin DOMAIN shorteventid_shortstatehash
    /\ seen[1].result = Ok(TRUE)
    /\ DOMAIN state_at # {}
    /\ VisibilityEventAt(Cardinality(DOMAIN state_at)) = Some("joined")
    /\ userroomid_joined = {}
    /\ user_visibility_cache = <<>>
    /\ server_visibility_cache = <<>>

\* C12: under invited, user_can_see_event is true exactly when the user's
\* member event at the event's snapshot says invite or join; under joined,
\* exactly when it says join; a missing or malformed member event counts as
\* neither, and the user's current membership plays no part, on a cache miss
\* and on a cache hit.
C12_UserHistoricalMembership ==
    /\ \A h \in DOMAIN state_at : \A u \in Users :
           LET invited == MemberEventAt(h, u) \in {Some("invite"), Some("join")}
               joined == MemberEventAt(h, u) = Some("join")
           IN  /\ VisibilityEventAt(h) = Some("invited") =>
                      /\ user_visibility(u, h) = Ok(invited)
                      /\ \A e \in Entries(user_visibility_cache) :
                             e.key = <<u, h>> => e.value = invited
               /\ VisibilityEventAt(h) = Some("joined") =>
                      /\ user_visibility(u, h) = Ok(joined)
                      /\ \A e \in Entries(user_visibility_cache) :
                             e.key = <<u, h>> => e.value = joined
    /\ SeenAt("user", "invited") =>
           seen[1].result = Ok(MemberEventAt(SeenHandle, seen[1].call.actor)
                                   \in {Some("invite"), Some("join")})
    /\ SeenAt("user", "joined") =>
           seen[1].result = Ok(MemberEventAt(SeenHandle, seen[1].call.actor)
                                   = Some("join"))

\* A user who was invited at the snapshot and is not joined now has been
\* answered true under invited.
C12_Witness ==
    /\ SeenAt("user", "invited")
    /\ MemberEventAt(SeenHandle, seen[1].call.actor) = Some("invite")
    /\ ~is_joined(seen[1].call.actor)
    /\ seen[1].result = Ok(TRUE)

\* C13: under invited (joined), server_can_see_event is true exactly when a
\* user who is currently joined to the room and whose server is the requesting
\* server has a member event saying invite or join (join) at the event's
\* snapshot; a server without a current member is denied.
C13_ServerHistoricalMembership ==
    /\ SeenAt("server", "invited") =>
           seen[1].result =
               Ok(\E m \in userroomid_joined :
                      /\ m.server = seen[1].call.actor
                      /\ MemberEventAt(SeenHandle, m) \in {Some("invite"), Some("join")})
    /\ SeenAt("server", "joined") =>
           seen[1].result =
               Ok(\E m \in userroomid_joined :
                      /\ m.server = seen[1].call.actor
                      /\ MemberEventAt(SeenHandle, m) = Some("join"))

\* C14: when the history visibility event at the event's snapshot parses to a
\* value other than world_readable, shared, invited and joined, can_see is
\* false for every user and every server, on a cache miss and on a cache hit.
C14_DenyUnrecognized ==
    /\ \A h \in DOMAIN state_at :
           VisibilityEventAt(h) = Some("x.custom") =>
               /\ \A u \in Users : user_visibility(u, h) = Ok(FALSE)
               /\ \A o \in Servers : server_visibility(o, h) = Ok(FALSE)
               /\ \A e \in Entries(user_visibility_cache)
                            \cup Entries(server_visibility_cache) :
                      e.key[2] = h => e.value = FALSE
    /\ (SeenAt("user", "x.custom") \/ SeenAt("server", "x.custom"))
        => seen[1].result = Ok(FALSE)

\* A user who is joined now and was joined at the snapshot, or the server of
\* such a user, has been denied at a snapshot with an unrecognized value.
C14_Witness ==
    /\ \/ /\ SeenAt("user", "x.custom")
          /\ is_joined(seen[1].call.actor)
          /\ MemberEventAt(SeenHandle, seen[1].call.actor) = Some("join")
       \/ /\ SeenAt("server", "x.custom")
          /\ \E m \in userroomid_joined :
                 /\ m.server = seen[1].call.actor
                 /\ MemberEventAt(SeenHandle, m) = Some("join")
    /\ seen[1].result = Ok(FALSE)

\* The content of the history visibility event in the room's current state.
VisibilityEventNow ==
    IF DOMAIN state_at = {} THEN None
    ELSE VisibilityEventAt(Cardinality(DOMAIN state_at))

\* C15: user_can_see_state_events is true exactly when the user is currently
\* joined or the room's current history visibility event says world_readable
\* (an unset or malformed one gives nothing to a user who is not joined), and
\* room_initial_sync_route answers Forbidden exactly when it is false.
C15_CanSeeState ==
    /\ \A u \in Users :
           user_can_see_state_events(u)
               = Ok(is_joined(u) \/ VisibilityEventNow = Some("world_readable"))
    /\ (seen # None /\ seen[1].call.kind = "state") =>
           seen[1].result = Ok(\/ is_joined(seen[1].call.actor)
                               \/ VisibilityEventNow = Some("world_readable"))
    /\ (seen # None /\ seen[1].call.kind = "initial_sync") =>
           seen[1].result =
               IF \/ is_joined(seen[1].call.actor)
                  \/ VisibilityEventNow = Some("world_readable")
               THEN Ok("Response") ELSE Err("Forbidden")

\* The initial sync of a user who is not joined has been refused in a room
\* whose current history visibility event is malformed.
C15_Witness ==
    /\ seen # None
    /\ seen[1].call.kind = "initial_sync"
    /\ ~is_joined(seen[1].call.actor)
    /\ VisibilityEventNow = Some("malformed")
    /\ seen[1].result = Err("Forbidden")

(***************************************************************************)
(* Properties of the destination resolver                                  *)
(***************************************************************************)

\* The lookups of the current resolution, and those of one kind.
Lookups == {i \in DOMAIN resolution.log : TRUE}
LookupsOf(call) == {i \in DOMAIN resolution.log : resolution.log[i].call = call}
DnsLookups == LookupsOf("lookup_ip") \cup LookupsOf("srv_lookup")
ResolutionDone == resolution.at = "done"

\* The well-known request of the current resolution named the hostname d.
DelegatedTo(d) ==
    \E i \in LookupsOf("well_known") :
        resolution.log[i].outcome =
            [sent |-> TRUE, status |-> 200, text |-> Text(30, Json(Some(d)))]

\* The SRV record a name has: its target without the final dot, and its port.
SrvTarget(name) == trim_end_matches(SrvLookup(name, Ok("record"))[1].target, ".")
SrvPort(name) == SrvLookup(name, Ok("record"))[1].port

\* The resolution of example.org was delegated to deleg.example.org, the SRV
\* lookup numbered i answered with a record, the address lookup of its target
\* found addresses, and the resolution has returned.
DelegatedThenSrv(i) ==
    /\ ResolutionDone
    /\ resolution.destination = <<"example.org">>
    /\ DelegatedTo(<<"deleg.example.org">>)
    /\ i \in LookupsOf("srv_lookup")
    /\ resolution.log[i].outcome = Ok("record")
    /\ i + 1 \in LookupsOf("lookup_ip")
    /\ resolution.log[i + 1].outcome = Ok("addresses")

\* C16 as stated: such a resolution returns the destination
\* deleg.example.org:P, reached at the addresses of the SRV target on port P,
\* with the host header deleg.example.org:P.
C16_Original ==
    \A i \in Lookups :
        DelegatedThenSrv(i) =>
            LET name == resolution.log[i].name
                port == <<":", u16_to_string(SrvPort(name))>>
            IN  /\ resolution.result
                       = Some(Ok(<<Named(<<"deleg.example.org">>, port),
                                   <<"deleg.example.org">> \o port>>))
                /\ overrides[<<"deleg.example.org">>]
                       = [ips |-> IpsOf(SrvTarget(name)), port |-> SrvPort(name)]

\* C16, amended: such a resolution returns the destination
\* deleg.example.org:P, reached at the addresses of the SRV target on port P,
\* with the host header deleg.example.org:8448, the delegated hostname with
\* the default port.
C16_FallbackOrder ==
    \A i \in Lookups :
        DelegatedThenSrv(i) =>
            LET name == resolution.log[i].name
                port == <<":", u16_to_string(SrvPort(name))>>
            IN  /\ resolution.result
                       = Some(Ok(<<Named(<<"deleg.example.org">>, port),
                                   <<"deleg.example.org", ":", "8448">>>>))
                /\ overrides[<<"deleg.example.org">>]
                       = [ips |-> IpsOf(SrvTarget(name)), port |-> SrvPort(name)]

\* example.org, delegated to deleg.example.org, whose _matrix-fed._tcp record
\* names target.example.org:9001, has been resolved.
C16_Witness ==
    /\ \E i \in Lookups :
           /\ DelegatedThenSrv(i)
           /\ resolution.log[i].name = <<"_matrix-fed._tcp.", "deleg.example.org">>
    /\ overrides[<<"deleg.example.org">>]
           = [ips |-> IpsOf(<<"target.example.org">>), port |-> 9001]
    /\ resolution.result[1].ok

\* C17: whatever goes wrong with the delegation document, the request fails,
\* the status is not 2xx, the body cannot be read or is too long, is no JSON,
\* has no m.server string or an invalid one, the resolution goes on to the
\* SRV lookup of the server name and does not return an error.
C17_DelegationFailureNotFatal ==
    \A i \in LookupsOf("well_known") :
        resolution.log[i].outcome \in WellKnownFailures =>
            IF i = Len(resolution.log)
            THEN /\ resolution.at = "srv_lookup"
                 /\ resolution.wait.hostname = resolution.destination
                 /\ resolution.result = None
            ELSE /\ resolution.log[i + 1].call = "srv_lookup"
                 /\ resolution.log[i + 1].name
                        = <<"_matrix-fed._tcp.">> \o resolution.destination

\* C18: the resolution of example.org:9001 makes one lookup, the address
\* lookup of example.org, and when it finds addresses the override entry of
\* example.org holds them with port 9001 and the resolution returns the
\* destination example.org:9001 with the host header example.org:9001.
C18_ExplicitPort ==
    (ResolutionDone /\ resolution.destination = <<"example.org", ":", "9001">>)
    => /\ Len(resolution.log) = 1
       /\ resolution.log[1].call = "lookup_ip"
       /\ resolution.log[1].name = <<"example.org">>
       /\ resolution.log[1].outcome = Ok("addresses") =>
              /\ overrides[<<"example.org">>]
                     = [ips |-> IpsOf(<<"example.org">>), port |-> 9001]
              /\ resolution.result
                     = Some(Ok(<<Named(<<"example.org">>, <<":", "9001">>),
                                 <<"example.org", ":", "9001">>>>))

\* C19: the _matrix-fed._tcp name is looked up first; when that lookup fails
\* with an error that is not an Io error, or has no record, the _matrix._tcp
\* name is looked up next; the target and port of the first lookup that has
\* a record are the ones the address lookup and the override entry use.
C19_SrvLookupOrder ==
    \A i \in LookupsOf("srv_lookup") :
        LET e == resolution.log[i] IN
        /\ e.name[1] = "_matrix._tcp." =>
               /\ i - 1 \in LookupsOf("srv_lookup")
               /\ resolution.log[i - 1].name = <<"_matrix-fed._tcp.">> \o Tail(e.name)
        /\ (/\ e.name[1] = "_matrix-fed._tcp."
            /\ e.outcome \in {Ok("empty"), Err("NoRecordsFound")}) =>
               IF i = Len(resolution.log)
               THEN resolution.at = "srv_lookup" /\ resolution.wait.i = 2
               ELSE /\ resolution.log[i + 1].call = "srv_lookup"
                    /\ resolution.log[i + 1].name = <<"_matrix._tcp.">> \o Tail(e.name)
        /\ e.outcome = Ok("record") =>
               IF i = Len(resolution.log)
               THEN /\ resolution.at = "lookup_ip"
                    /\ resolution.wait.hostname = SrvTarget(e.name)
                    /\ resolution.wait.port = SrvPort(e.name)
               ELSE /\ resolution.log[i + 1].call = "lookup_ip"
                    /\ resolution.log[i + 1].name = SrvTarget(e.name)

\* C20: a DNS lookup that fails with an Io error ends the resolution with an
\* error; a resolution in which DNS lookups failed, none of them with an Io
\* error, returns a destination.
C20_DnsFailureClasses ==
    /\ \A i \in DnsLookups :
           resolution.log[i].outcome = Err("Io") =>
               /\ i = Len(resolution.log)
               /\ ResolutionDone
               /\ resolution.result = Some(Err("Error"))
    /\ (/\ ResolutionDone
        /\ \E i \in DnsLookups : resolution.log[i].outcome = Err("NoRecordsFound")
        /\ \A i \in DnsLookups : resolution.log[i].outcome # Err("Io"))
       => resolution.result[1].ok

\* The resolution of a hostname without a port has returned a destination;
\* its well-known request named no delegated hostname and none of its SRV
\* lookups had a record.
NoDelegationNoSrv ==
    /\ ResolutionDone
    /\ Len(resolution.destination) = 1
    /\ resolution.destination[1] \in Hostnames
    /\ \E i \in LookupsOf("well_known") :
           well_known_delegation(resolution.log[i].outcome) = Ok(None)
    /\ LookupsOf("srv_lookup") # {}
    /\ \A i \in LookupsOf("srv_lookup") :
           resolution.log[i].outcome \in {Ok("empty"), Err("NoRecordsFound")}
    /\ resolution.result[1].ok

\* C21: get_ip_with_port and add_port_to_hostname keep the port of an IPv4
\* address, an IPv6 address and a hostname that has one and attach 8448 to
\* one that has none; the resolution of a hostname without a port, without a
\* delegation and without an SRV record returns the hostname with port 8448
\* as the destination and as the host header.
C21_DefaultPort ==
    /\ \A ip \in IpLiterals :
           /\ get_ip_with_port(ip) = Some(Literal(SocketAddr(ip, 8448)))
           /\ into_uri_string(get_ip_with_port(ip)[1]) = ip \o <<":", "8448">>
           /\ \A p \in PortDigits :
                  into_uri_string(get_ip_with_port(ip \o <<":", p>>)[1]) = ip \o <<":", p>>
    /\ \A ip \in Ipv6Literals :
           /\ get_ip_with_port(ip) = Some(Literal(SocketAddr(ip, 8448)))
           /\ into_uri_string(get_ip_with_port(ip)[1])
                  = <<"[">> \o ip \o <<"]", ":", "8448">>
           /\ \A p \in PortDigits :
                  into_uri_string(get_ip_with_port(<<"[">> \o ip \o <<"]", ":", p>>)[1])
                      = <<"[">> \o ip \o <<"]", ":", p>>
    /\ \A h \in Hostnames :
           /\ get_ip_with_port(<<h>>) = None
           /\ add_port_to_hostname(<<h>>) = Named(<<h>>, <<":", "8448">>)
           /\ \A p \in PortDigits :
                  add_port_to_hostname(<<h, ":", p>>) = Named(<<h>>, <<":", p>>)
    /\ NoDelegationNoSrv =>
           resolution.result
               = Some(Ok(<<Named(resolution.destination, <<":", "8448">>),
                           resolution.destination \o <<":", "8448">>>>))

\* example.org, whose well-known request was answered 404 and whose two SRV
\* names have no record, has been resolved to example.org:8448.
C21_Witness ==
    /\ NoDelegationNoSrv
    /\ resolution.destination = <<"example.org">>
    /\ Cardinality(LookupsOf("srv_lookup")) = 2
    /\ into_uri_string(resolution.result[1].val[1]) = <<"example.org", ":", "8448">>

(***************************************************************************)
(* Properties of send_request                                              *)
(***************************************************************************)

\* The send_request call has come to Client::execute with a destination that
\* was, or was not, read from the cache.
Executing(cached) ==
    /\ request.at = "execute"
    /\ request.actual[1].cached = cached

\* C22: a send_request to a server name that has a cache entry goes on with
\* exactly that destination and host, marked cached, and starts no
\* resolution; until the request returns no lookup is made and the cache is
\* not written.
C22_CacheHit ==
    [][/\ (/\ request.at \in {"idle", "done"}
           /\ request' # request
           /\ request'.destination \in DOMAIN actual_destinations)
          => /\ request'.at \in {"execute", "done"}
             /\ request'.actual
                    = Some(ActualDestination(
                               actual_destinations[request'.destination][1],
                               actual_destinations[request'.destination][2], TRUE))
             /\ resolution' = resolution
       /\ Executing(TRUE)
          => /\ resolution' = resolution
             /\ overrides' = overrides
             /\ actual_destinations' = actual_destinations]_vars

\* A request to example.org, sent at the destination the cache holds for it,
\* has been answered with a response.
C22_Witness ==
    /\ request.at = "done"
    /\ request.destination = <<"example.org">>
    /\ request.actual # None
    /\ request.actual[1].cached
    /\ request.result[1].ok
    /\ actual_destinations[<<"example.org">>]
           = <<request.actual[1].destination, request.actual[1].host>>

\* The cache entries are never removed.
EntriesStay ==
    \A name \in DOMAIN actual_destinations : name \in DOMAIN actual_destinations'

\* The send_request call has returned; it had resolved its server name.
ReturnedFresh ==
    /\ request.at = "done"
    /\ request.actual # None
    /\ ~request.actual[1].cached

\* The cache holds, for the server name of the request, the destination and
\* the host the request was sent with.
CacheHoldsActual ==
    /\ request.destination \in DOMAIN actual_destinations
    /\ actual_destinations[request.destination]
           = <<request.actual[1].destination, request.actual[1].host>>

AckedBy(dest) == UNION {Range(transactions(dest)[i]) : i \in DOMAIN transactions(dest)}
Answered == UNION {AckedBy(dest) : dest \in DOMAIN delivered}

\* Request k has reached its destination and was not rejected there.
Delivered(k) == k \in Answered /\ ~poison(queue_log[k].event)

\* The call that queued request k has returned.
Enqueued(k) ==
    /\ up
    /\ k \in sending_db
    /\ \A i \in DOMAIN dispatching : dispatching[i].queue_id # <<k>>

\* The process is killed, and it starts.
Killed == up /\ ~up'
Starts == ~up /\ up'

\* Request k is one the start of the process drops.
DroppedAtStart(k) ==
    /\ startup_netburst_keep >= 0
    /\ k \notin kept(queue_log[k].dest)

Events(batch, kind) == {i \in DOMAIN batch : queue_log[batch[i]].event.kind = kind}
WithinLimits(batch) ==
    /\ Cardinality(Events(batch, "Pdu")) <= 50
    /\ Cardinality(Events(batch, "Edu")) <= 100

\* C26: no transaction the worker sends, and none a destination has answered,
\* has more than 50 PDUs or more than 100 EDUs; a backlog of more than 100
\* EDUs for one destination has left the db in two transactions or more.
C26_BatchingCeiling ==
    /\ \A dest \in DOMAIN statuses : WithinLimits(statuses[dest].batch)
    /\ \A dest \in DOMAIN delivered :
           \A i \in DOMAIN delivered[dest] : WithinLimits(delivered[dest][i])
    /\ (/\ sending_db = {}
        /\ Cardinality({k \in DOMAIN queue_log : queue_log[k].event.kind = "Edu"}) > 100
        /\ abandoned = <<>>)
       => Len(transactions(Normal(<<"example.org">>))) >= 2

\* 120 EDUs for example.org have left the db in two transactions, of the
\* first 100 and of the other 20.
C26_Witness ==
    /\ queue_log = Backlog(120, "Edu")
    /\ sending_db = {}
    /\ Len(transactions(Normal(<<"example.org">>))) = 2
    /\ transactions(Normal(<<"example.org">>))[1] = [k \in 1..100 |-> k]
    /\ transactions(Normal(<<"example.org">>))[2] = [i \in 1..20 |-> 100 + i]

\* The queue ids of a transaction rise.
Rising(batch) == \A i, j \in DOMAIN batch : i < j => batch[i] < batch[j]

\* The transactions destinations have answered, and the ones the worker
\* sends, are in the order of the queue ids.
InQueueOrder ==
    \A dest \in Destinations :
        /\ \A i \in DOMAIN transactions(dest) :
               /\ Rising(transactions(dest)[i])
               /\ \A j \in DOMAIN transactions(dest) :
                      i < j => \A k \in Range(transactions(dest)[i]),
                                  l \in Range(transactions(dest)[j]) : k < l
        /\ dest \in DOMAIN statuses =>
               /\ Rising(statuses[dest].batch)
               /\ \A k \in Range(statuses[dest].batch) :
                      /\ \A l \in AckedBy(dest) : l < k
                      /\ \A l \in stored_for(sending_db, dest) :
                             l \in Range(statuses[dest].batch) \/ k < l

\* C27: the transactions a destination has answered hold rising queue ids,
\* each transaction ids above those of the one before; the transaction the
\* worker sends holds ids above all answered ones and below every other
\* stored request of the destination; a transaction that failed is sent
\* again as it was.
C27_PerDestinationOrder ==
    /\ []InQueueOrder
    /\ [][\A dest \in DOMAIN statuses :
              (statuses[dest].at = "failed" /\ dest \in DOMAIN statuses')
                  => statuses'[dest].batch = statuses[dest].batch]_vars

\* Two requests for example.org: the first was delivered, the process was
\* killed and started, the transaction of the second failed, was sent again
\* and was answered.
C27_Witness ==
    /\ transactions(Normal(<<"example.org">>)) = << <<1>>, <<2>> >>
    /\ crashes = 1

RemovedByAnswer(k) ==
    \E dest \in DOMAIN statuses :
        /\ statuses[dest].at = "running"
        /\ k \in Range(statuses[dest].batch)
        /\ dest \in DOMAIN delivered'
        /\ delivered'[dest] = Append(transactions(dest), statuses[dest].batch)

\* The step removes request k with all stored requests of its appservice.
RemovedByCleanup(k) ==
    /\ up /\ up'
    /\ queue_log[k].dest.kind = "Appservice"
    /\ stored_for(sending_db', queue_log[k].dest) = {}

C29_NoPoisonDeadlock ==
    /\ \A k \in 1..MaxQueued : (k \in sending_db) ~> (k \notin sending_db)
    /\ [][\A dest \in DOMAIN statuses :
              /\ (statuses[dest].at = "running" /\ delivered' # delivered
                  /\ dest \in DOMAIN delivered' /\ delivered'[dest] # transactions(dest))
                     => \A k \in Range(statuses[dest].batch) :
                            poison(queue_log[k].event) => k \notin sending_db'
              /\ (statuses[dest].at = "running" /\ dest \in DOMAIN statuses'
                  /\ statuses'[dest].at = "failed")
                     => /\ sending_db' = sending_db
                        /\ statuses'[dest].batch = statuses[dest].batch
              /\ (statuses[dest].at = "failed" /\ dest \in DOMAIN statuses'
                  /\ statuses'[dest].at = "running")
                     => statuses'[dest].batch = statuses[dest].batch]_vars

\* example.org has rejected the first request, a malformed PDU, and the
\* second request for it has been delivered.
C29_Witness ==
    /\ 1 \in DOMAIN abandoned
    /\ abandoned[1] = "rejected"
    /\ 2 \in DOMAIN queue_log
    /\ queue_log[2].dest = queue_log[1].dest
    /\ Delivered(2)

\* The lists of messages a flush_servers call dispatches.
FlushMessages ==
    {[i \in DOMAIN servers |-> Msg(Normal(servers[i]), Flush, <<>>)] :
        servers \in ServerLists \cup {not_ours(room_servers)}}

\* The worker receives the message at the head of the channel.
Receives == up /\ up' /\ channel # <<>> /\ channel' = Tail(channel)

\* C30: a flush call dispatches one Flush message with an empty queue id per
\* server and writes nothing to the db; when the worker receives it nothing
\* is written either, and if a transaction of that destination is being
\* sent the worker receives no further message until that transaction has
\* been answered or has failed.
C30_FlushMarker ==
    [][/\ (dispatching = <<>> /\ dispatching' # <<>> /\ dispatching'[1].event = Flush)
          => /\ dispatching' \in FlushMessages
             /\ sending_db' = sending_db
             /\ queue_log' = queue_log
       /\ (Receives /\ Head(channel).event = Flush)
          => /\ sending_db' = sending_db
             /\ statuses' = statuses
             /\ flushing' = {dest \in {Head(channel).dest} :
                                /\ dest \in DOMAIN statuses
                                /\ statuses[dest].at = "running"}
       /\ (flushing # {} /\ up')
          => /\ ~Receives
             /\ \A dest \in flushing \ flushing' :
                    /\ statuses[dest].at = "running"
                    /\ dest \in DOMAIN statuses' => statuses'[dest] # statuses[dest]]_vars

\* The worker has received a Flush for a destination whose transaction is
\* being sent, and a message waits in the channel.
C30_Witness ==
    /\ flushing # {}
    /\ channel # <<>>
    /\ \A dest \in flushing : statuses[dest].at = "running"

(***************************************************************************)
(* Properties of the inbound transactions                                  *)
(***************************************************************************)

\* A step of send_transaction_message_route.
RouteStep == transaction'.count = transaction.count + 1

\* C31: send_transaction_message_route answers Forbidden to a transaction of
\* more than 50 PDUs or more than 100 EDUs and changes no state for it, and
\* accepts a transaction of exactly 50 PDUs and exactly 100 EDUs.
C31_InboundLimits ==
    [][RouteStep =>
        /\ (transaction'.pdus > 50 \/ transaction'.edus > 100) =>
              /\ ~transaction'.result.ok
              /\ transaction'.result.err = "Forbidden"
              /\ services' = services
              /\ typing' = typing
        /\ (/\ transaction'.pdus = 50
            /\ transaction'.edus = 100
            /\ transaction'.origin = transaction'.body_origin) =>
              /\ transaction'.result.ok
              /\ services'.timeline = services.timeline + 50]_vars

C31_AcceptedAtLimits ==
    /\ transaction.count > 0
    /\ transaction.pdus = 50
    /\ transaction.edus = 100
    /\ transaction.result.ok
    /\ services.timeline >= 50

\* What the stores hold of a user: presence, receipt, typing, device list and
\* signing key of the user, the to-device events the user sent, and the
\* message ids recorded for the user.
InboundUsers == {alice, carol, dave}
sent_by(user_id) ==
    [key \in DOMAIN services.todevice |->
        SelectSeq(services.todevice[key], LAMBDA ev : ev.sender = user_id)]
StateOf(user_id) ==
    [presence |-> user_id \in services.presence,
     read_receipt |-> user_id \in services.read_receipt,
     typing |-> IF user_id \in DOMAIN typing THEN Some(typing[user_id]) ELSE None,
     device_key_updates |-> user_id \in services.device_key_updates,
     cross_signing_keys |-> user_id \in services.cross_signing_keys,
     todevice |-> {<<key, sent_by(user_id)[key]>> :
                      key \in {k \in DOMAIN services.todevice : sent_by(user_id)[k] # <<>>}},
     transaction_ids |-> {id \in services.transaction_ids : id[1] = user_id}]

C40_AtMostOnce ==
    \A key \in DOMAIN services.todevice :
        \A i, j \in DOMAIN services.todevice[key] :
            services.todevice[key][i] = services.todevice[key][j] => i = j

(***************************************************************************)
(* Properties of get_missing_events                                        *)
(***************************************************************************)

\* The prev_events of the returned events, in their order.
RECURSIVE prev_events_of(_)
prev_events_of(events) ==
    IF events = <<>> THEN <<>>
    ELSE pdus[Head(events)].prev_events \o prev_events_of(Tail(events))

\* The response has only events the origin may see and that are not in
\* earliest_events, and the queue has only latest_events and the
\* prev_events of returned events.
FilteredTraversal ==
    missing.at # "idle" =>
        /\ \A k \in DOMAIN missing.events :
              /\ pdus[missing.events[k]].visible
              /\ missing.events[k] \notin missing.body.earliest_events
        /\ missing.result.ok =>
              missing.queued_events
                  = missing.body.latest_events \o prev_events_of(missing.events)

\* The queued events of another room, among the first n of the queue.
wrong_room(n) ==
    {k \in 1..n : /\ missing.queued_events[k] \in DOMAIN pdus
                  /\ pdus[missing.queued_events[k]].room_id # "!room"}

C34_BoundedTerminating ==
    /\ [](missing.at # "idle" => Len(missing.events) <= missing.body.limit)
    /\ (missing.at = "loop") ~> (missing.at = "done")

C34_StoppedByLimit ==
    /\ missing.at = "done"
    /\ missing.result.ok
    /\ missing.body.limit = MaxLimit
    /\ Len(missing.events) = MaxLimit
    /\ missing.i < Len(missing.queued_events)

(***************************************************************************)
(* Properties of the typing service                                        *)
(***************************************************************************)

\* C35: typings_maintain removes a user from the typing set of the room only
\* when the current time has passed the timeout the user was last set to,
\* whatever typing_add runs between its two blocks.
C35_TypingLifetime ==
    [][(maintain.at = "write" /\ maintain'.at = "idle") =>
          \A user_id \in DOMAIN typing \ DOMAIN typing' : typing[user_id] < now]_vars

(***************************************************************************)
(* Properties of the cache locks                                           *)
(***************************************************************************)

\* A caller that waits for a lock, and the callers that keep it waiting.
waits(c) ==
    /\ callers[c].pc < Len(callers[c].steps)
    /\ next_step(c).op = "lock"
    /\ ~lock_free(next_step(c).on, next_step(c).mode)
holders(cache) == {h[1] : h \in cache_locks[cache]}

\* C32: in every interleaving of user_can_see_event, server_can_see_event
\* and send_request calls, a caller that reads the storage, looks up DNS,
\* fetches the well-known file or sends the request holds no cache lock; a
\* lock is held for one operation on the map only; and no caller waits for a
\* lock whose holder is in such I/O.
C32_NoLockAcrossIo ==
    \A c \in Threads :
        /\ doing(c).op = "io" => held(c) = {}
        /\ held(c) # {} =>
              /\ held(c) = {doing(c).on}
              /\ doing(c).op \in {"lock", "map"}
              /\ doing(c).op = "lock" => next_step(c).op = "map"
              /\ doing(c).op = "map" => next_step(c).op = "unlock"
        /\ waits(c) => \A h \in holders(next_step(c).on) : doing(h).op # "io"

C32_WaitsForMapOperation ==
    \E c, h \in Threads :
        /\ waits(c)
        /\ h \in holders(next_step(c).on)
        /\ doing(h).op = "map"
        /\ \E d \in Threads : doing(d).op = "io" /\ doing(d).on = "dns"

(***************************************************************************)
(* Properties of server_can_see_event                                      *)
(***************************************************************************)

\* The last call was server_can_see_event for an event whose snapshot has the
\* history visibility shared, set or by default.
SharedForServer ==
    /\ seen # None
    /\ seen[1].call.kind = "server"
    /\ pdu_shortstatehash(seen[1].call.event).val # None
    /\ history_visibility(pdu_shortstatehash(seen[1].call.event).val[1]).ok
    /\ history_visibility(pdu_shortstatehash(seen[1].call.event).val[1]).val = "shared"

\* C36: when the history visibility at the snapshot of the event is shared,
\* server_can_see_event returns true for every server, with or without
\* members of the server in the room.
C36_ServerSharedVisibility ==
    SharedForServer => (seen[1].result.ok /\ seen[1].result.val = TRUE)

C36_NoMemberOfServer ==
    /\ SharedForServer
    /\ seen[1].result.ok /\ seen[1].result.val = TRUE
    /\ seen[1].hit
    /\ {m \in room_members : server_name(m) = seen[1].call.actor} = {}
    /\ state_get(pdu_shortstatehash(seen[1].call.event).val[1], RoomHistoryVisibility, "").val
          = None

(***************************************************************************)
(* Properties of rejected sends                                            *)
(***************************************************************************)

\* The destinations send_request refuses: every one when federation is
\* disabled, this server, and an IP literal of the denylist.
Rejected(destination) ==
    \/ ~allow_federation
    \/ destination = config_server_name
    \/ /\ parse_IpAddr(ServerName_host(destination)).ok
       /\ parse_IpAddr(ServerName_host(destination)).val \in cidr_range_denylist

\* C37: send_request to a refused destination returns an error at once: the
\* destination is not resolved, no DNS lookup, well-known fetch or HTTP
\* request is started, and the caches of destinations and of overrides stay
\* as they were.
C37_RejectedSendsNoEffect ==
    [][(request.at \in {"idle", "done"} /\ Rejected(request'.destination)) =>
          /\ request'.at = "done"
          /\ request'.actual = None
          /\ ~request'.result[1].ok
          /\ resolution' = resolution
          /\ overrides' = overrides
          /\ actual_destinations' = actual_destinations]_vars

C37_RejectedDenylisted ==
    /\ allow_federation
    /\ request.at = "done"
    /\ request.destination = <<"10.0.0.1">>
    /\ ~request.result[1].ok
    /\ request.actual = None
    /\ actual_destinations # <<>>
    /\ overrides # <<>>

(***************************************************************************)
(* Properties of the key prefixes                                          *)
(***************************************************************************)

\* C38: for two distinct destinations neither get_prefix is a prefix of the
\* other, so the entries a prefix scan of one destination selects, and
\* delete_all_requests_for removes, are never entries of another destination.
C38_PrefixFree ==
    /\ prefixes.at = "ready" =>
          /\ prefixes.a # prefixes.b =>
                /\ ~starts_with(get_prefix(prefixes.a), get_prefix(prefixes.b))
                /\ ~starts_with(get_prefix(prefixes.b), get_prefix(prefixes.a))
          /\ \A e \in prefixes.db, dest \in {prefixes.a, prefixes.b} :
                starts_with(e.key, get_prefix(dest)) <=> e.dest = dest
    /\ [][(prefixes.at = "ready" /\ prefixes'.deleted_for # prefixes.deleted_for) =>
             \A e \in prefixes.db :
                 e \in prefixes'.db <=> e.dest # prefixes'.deleted_for[1]]_vars

C38_DeletedOneOfTwo ==
    /\ prefixes.at = "ready"
    /\ prefixes.deleted_for # None
    /\ prefixes.a.kind = "Appservice" /\ prefixes.a.id = <<>>
    /\ prefixes.b.kind = "Appservice" /\ prefixes.b.id = <<36, 97>>
    /\ prefixes.deleted_for[1] = prefixes.a
    /\ \E e \in prefixes.db : e.dest = prefixes.b

====
